---- MODULE Spec2Model ----
(***************************************************************************)
(* A model of the multi-provider AI client of the book-digitization        *)
(* pipeline (bib/src/providers): ProviderConfig, the five AIProvider       *)
(* variants with their chat/vision requests, the retry policy             *)
(* AIProvider._retry_with_backoff, and the factory get_provider.           *)
(*                                                                         *)
(* Reals are scaled to integers: temperature and top_p are in tenths       *)
(* (0.7 is 7, 2 is 20), retry_delay and sleeps are in tenths of a second.  *)
(* Python's None is the string "None"; a string is the sequence of its     *)
(* characters and a generated text is a sequence of tokens.                *)
(***************************************************************************)
EXTENDS Integers, Sequences, FiniteSets, TLC

VARIABLES
    name,            \* AIProvider.name of the instance under test
    kw,              \* the keyword arguments ProviderConfig was called with
    config,          \* self.config, a ProviderConfig
    client,          \* self._client: "None" or "set"
    init_count,      \* how often _initialize_client ran to completion or failure
    initialized,     \* a run of _initialize_client has completed on the instance
    image_format,    \* the image_format argument of the current vision call
    pc,              \* position of the caller: new (a ProviderConfig before
                     \* __post_init__), constructed, idle, attempt, returned,
                     \* raised
    op,              \* the operation in progress or last finished: chat, vision
    ops,             \* number of chat/vision calls started on the instance
    attempt,         \* loop variable of _retry_with_backoff
    last_exception,  \* local of _retry_with_backoff
    trace,           \* events of the current operation: calls of func and sleeps
    sent,            \* the vendor requests issued by the current operation
    raised_kinds,    \* kinds of the exceptions func raised in this operation
    last_raised,     \* the exception raised by the most recent failed attempt
    lines,           \* response lines read by the attempt that returned (Ollama)
    outcome,         \* what the operation gave its caller: a value or an error
    environ,         \* os.environ, a dict from variable names to strings
    dotenv,          \* the .env file of the working directory, parsed
    call,            \* the arguments of the latest get_provider call and
                     \* os.environ as the call found it
    result,          \* what that call gave: a provider or an error
    module           \* the PDFScanner or Translator constructed last: its
                     \* class, its config and its provider

\* the state of one provider instance and of its current operation
instance == <<client, init_count, initialized, image_format, op, ops, attempt,
              last_exception, trace, sent, raised_kinds, last_raised, lines,
              outcome>>

\* the state of the factory and of the module that uses it
factory == <<environ, dotenv, call, result, module>>

vars == <<name, kw, config, pc, instance, factory>>

-----------------------------------------------------------------------------
(* Bounds of the model *)

MaxRetriesBound == 3
MaxDelay == 2
MaxOps == 2
MaxLines == 2
MaxOut == 2

(* Program constants *)

DefaultMaxTokens == 4096
DefaultTemperature == 7
DefaultTopP == 9
DefaultMaxRetries == 3
DefaultRetryDelay == 10
MaxTemperature == 20
MaxTopP == 10
VisionTemperature == 1

None == "None"

RECURSIVE Pow2(_)
Pow2(n) == IF n <= 0 THEN 1 ELSE 2 * Pow2(n - 1)

RECURSIVE Concat(_)
Concat(ss) == IF ss = <<>> THEN <<>> ELSE Head(ss) \o Concat(Tail(ss))

SeqsUpTo(S, n) == UNION {[1..k -> S] : k \in 0..n}

-----------------------------------------------------------------------------
(* ProviderConfig *)

post_init_max_tokens(max_tokens) ==
    IF max_tokens < 1 THEN DefaultMaxTokens ELSE max_tokens

clamp_temperature(temperature) ==
    IF temperature < 0 THEN 0
    ELSE IF temperature > MaxTemperature THEN MaxTemperature ELSE temperature

post_init_temperature(temperature) ==
    IF ~(0 <= temperature /\ temperature <= MaxTemperature)
    THEN DefaultTemperature ELSE temperature

post_init_top_p(top_p) ==
    IF ~(0 <= top_p /\ top_p <= MaxTopP) THEN DefaultTopP ELSE top_p

\* __post_init__ on the fields the generated __init__ assigned
post_init(c) ==
    [c EXCEPT !.max_tokens = post_init_max_tokens(c.max_tokens),
              !.temperature = post_init_temperature(c.temperature),
              !.top_p = post_init_top_p(c.top_p)]

\* ProviderConfig(**k)
ProviderConfig(k) == post_init(k)

-----------------------------------------------------------------------------
(* The provider variants *)

PROVIDERS == {"qwen", "gemini", "openai", "anthropic", "ollama"}

\* A string is the sequence of its characters; "" is <<>>.
\* `self.config.vision_model or "<default>"` in each variant's vision()
default_vision_model(n) ==
    CASE n = "qwen" -> <<"q", "w", "e", "n", "-", "v", "l", "-", "p", "l", "u", "s">>
      [] n = "gemini" -> <<"g", "e", "m", "i", "n", "i", "-", "2", ".", "0", "-", "f", "l", "a", "s", "h">>
      [] n = "openai" -> <<"g", "p", "t", "-", "4", "o">>
      [] n = "anthropic" ->
           <<"c", "l", "a", "u", "d", "e", "-", "s", "o", "n", "n", "e", "t", "-", "4", "-", "2", "0", "2", "5", "0", "5", "1", "4">>
      [] n = "ollama" -> <<"l", "l", "a", "v", "a">>

\* `self.config.language_model or "<default>"` in each variant's chat()
default_language_model(n) ==
    CASE n = "qwen" -> <<"q", "w", "e", "n", "-", "m", "a", "x">>
      [] n = "gemini" -> <<"g", "e", "m", "i", "n", "i", "-", "2", ".", "0", "-", "f", "l", "a", "s", "h">>
      [] n = "openai" -> <<"g", "p", "t", "-", "4", "o">>
      [] n = "anthropic" ->
           <<"c", "l", "a", "u", "d", "e", "-", "s", "o", "n", "n", "e", "t", "-", "4", "-", "2", "0", "2", "5", "0", "5", "1", "4">>
      [] n = "ollama" -> <<"l", "l", "a", "m", "a", "3">>

\* an argument that is None
NoArg == <<None>>

Lowers == <<"a", "b", "c", "d", "e", "f", "g", "h", "i", "j", "k", "l", "m",
            "n", "o", "p", "q", "r", "s", "t", "u", "v", "w", "x", "y", "z">>
Uppers == <<"A", "B", "C", "D", "E", "F", "G", "H", "I", "J", "K", "L", "M",
            "N", "O", "P", "Q", "R", "S", "T", "U", "V", "W", "X", "Y", "Z">>

\* the lower-case letter of each upper-case letter, and the converse
ToLower ==
    [c \in {Uppers[i] : i \in 1..Len(Uppers)} |->
        Lowers[CHOOSE i \in 1..Len(Uppers) : Uppers[i] = c]]

ToUpper ==
    [c \in {Lowers[i] : i \in 1..Len(Lowers)} |->
        Uppers[CHOOSE i \in 1..Len(Lowers) : Lowers[i] = c]]

lower_char(c) == IF c \in DOMAIN ToLower THEN ToLower[c] ELSE c

upper_char(c) == IF c \in DOMAIN ToUpper THEN ToUpper[c] ELSE c

\* str.lower()
lower(s) == [i \in 1..Len(s) |-> lower_char(s[i])]

\* str.upper()
upper(s) == [i \in 1..Len(s) |-> upper_char(s[i])]

\* no PDFScanner or Translator constructed
NoModule == [class |-> None]

\* values of vision()'s image_format: the five of the interface, an upper
\* case spelling and two formats outside the interface
ImageFormats ==
    {<<"p", "n", "g">>, <<"j", "p", "g">>, <<"j", "p", "e", "g">>,
     <<"g", "i", "f">>, <<"w", "e", "b", "p">>, <<"P", "N", "G">>,
     <<"b", "m", "p">>, <<"t", "i", "f", "f">>}

\* `a or b` on strings and None
py_or(a, b) == IF a = <<>> \/ a = NoArg THEN b ELSE a

\* The request the closure _call issues on every attempt, per variant.
VendorRequest(kind, model, max_tokens, temperature, top_p) ==
    [kind |-> kind, model |-> model, max_tokens |-> max_tokens,
     temperature |-> temperature, top_p |-> top_p]

\* a request of a call that passes no top_p
VendorRequestNoTopP(kind, model, max_tokens, temperature) ==
    [kind |-> kind, model |-> model, max_tokens |-> max_tokens,
     temperature |-> temperature]

qwen_chat_request(c) ==
    VendorRequest("chat", py_or(c.language_model, default_language_model("qwen")),
                  c.max_tokens, c.temperature, c.top_p)

qwen_vision_request(c) ==
    VendorRequestNoTopP("vision", py_or(c.vision_model, default_vision_model("qwen")),
                         c.max_tokens, VisionTemperature)

\* the GenerativeModel objects are built by _initialize_client
gemini_chat_request(c) ==
    VendorRequest("chat",
                  py_or(c.language_model, default_language_model("gemini")),
                  c.max_tokens, c.temperature, c.top_p)

gemini_vision_configured_temperature(c) ==
    VendorRequestNoTopP("vision",
                         py_or(c.vision_model, default_vision_model("gemini")),
                         c.max_tokens, c.temperature)

gemini_vision_request(c) ==
    VendorRequestNoTopP("vision",
                         py_or(c.vision_model, default_vision_model("gemini")),
                         c.max_tokens, VisionTemperature)

openai_chat_request(c) ==
    VendorRequest("chat",
                  py_or(c.language_model, default_language_model("openai")),
                  c.max_tokens, c.temperature, c.top_p)

openai_vision_request(c) ==
    VendorRequestNoTopP("vision",
                         py_or(c.vision_model, default_vision_model("openai")),
                         c.max_tokens, VisionTemperature)

\* messages.create is given no top_p
anthropic_chat_request(c) ==
    VendorRequestNoTopP("chat",
                         py_or(c.language_model, default_language_model("anthropic")),
                         c.max_tokens, c.temperature)

anthropic_vision_request(c) ==
    VendorRequestNoTopP("vision",
                         py_or(c.vision_model, default_vision_model("anthropic")),
                         c.max_tokens, VisionTemperature)

ollama_chat_request(c) ==
    VendorRequest("chat",
                  py_or(c.language_model, default_language_model("ollama")),
                  c.max_tokens, c.temperature, c.top_p)

ollama_vision_request(c) ==
    VendorRequestNoTopP("vision",
                         py_or(c.vision_model, default_vision_model("ollama")),
                         c.max_tokens, VisionTemperature)

\* the media type each variant's vision() declares for the image; Ollama
\* sends the image without one
ImagePrefix == <<"i", "m", "a", "g", "e", "/">>

\* f"data:image/{image_format};base64,{image_base64}"
qwen_media_type(fmt) == ImagePrefix \o fmt

\* "mime_type": f"image/{image_format}"
gemini_media_type(fmt) == ImagePrefix \o fmt

\* f"data:image/{image_format};base64,{image_base64}"
openai_media_type(fmt) == ImagePrefix \o fmt

\* media_type_map.get(image_format.lower(), "image/png")
anthropic_media_type(fmt) ==
    LET f == lower(fmt)
    IN  CASE f = <<"p", "n", "g">> -> ImagePrefix \o <<"p", "n", "g">>
          [] f = <<"j", "p", "g">> -> ImagePrefix \o <<"j", "p", "e", "g">>
          [] f = <<"j", "p", "e", "g">> -> ImagePrefix \o <<"j", "p", "e", "g">>
          [] f = <<"g", "i", "f">> -> ImagePrefix \o <<"g", "i", "f">>
          [] f = <<"w", "e", "b", "p">> -> ImagePrefix \o <<"w", "e", "b", "p">>
          [] OTHER -> ImagePrefix \o <<"p", "n", "g">>

\* "images": [image_base64]
ollama_media_type(fmt) == NoArg

media_type(n, fmt) ==
    CASE n = "qwen" -> qwen_media_type(fmt)
      [] n = "gemini" -> gemini_media_type(fmt)
      [] n = "openai" -> openai_media_type(fmt)
      [] n = "anthropic" -> anthropic_media_type(fmt)
      [] n = "ollama" -> ollama_media_type(fmt)

chat_request(n, c) ==
    CASE n = "qwen" -> qwen_chat_request(c)
      [] n = "gemini" -> gemini_chat_request(c)
      [] n = "openai" -> openai_chat_request(c)
      [] n = "anthropic" -> anthropic_chat_request(c)
      [] n = "ollama" -> ollama_chat_request(c)

vision_request(n, c) ==
    CASE n = "qwen" -> qwen_vision_request(c)
      [] n = "gemini" -> gemini_vision_request(c)
      [] n = "openai" -> openai_vision_request(c)
      [] n = "anthropic" -> anthropic_vision_request(c)
      [] n = "ollama" -> ollama_vision_request(c)

\* _initialize_client: Gemini stores its models in _vision_model and
\* _language_model and never assigns self._client
client_after_init(n) == IF n = "gemini" THEN None ELSE "set"

init_error_as_exhausted(n) ==
    [type |-> "RuntimeError", text |-> <<"pip install">>]

\* the exception _initialize_client raises: ImportError with an install
\* hint, or for Ollama ConnectionError
init_error(n) ==
    IF n = "ollama"
    THEN [type |-> "ConnectionError", text |-> <<"ollama serve">>]
    ELSE [type |-> "ImportError", text |-> <<"pip install">>]

-----------------------------------------------------------------------------
(* What the vendor can answer *)

\* Subclasses of Exception a vendor call raises: a timeout, a rate limit,
\* an authentication failure, a malformed request, an undecodable body
ExceptionKinds == {"timeout", "rate_limit", "auth", "malformed", "decode"}
Msgs == {"m1", "m2"}
Exceptions == [kind : ExceptionKinds \ {"decode"}, msg : Msgs]
UnicodeDecodeError == [kind |-> "decode", msg |-> "m1"]

\* last_exception = None
NoException == [kind |-> None, msg |-> None]

\* str(e): the message of the exception, without its type
str(e) == <<e.msg>>

Texts == {<<"a">>, <<"b">>}

\* One line of Ollama's streamed response body
Lines == {[t |-> "response", text |-> <<"a">>],
          [t |-> "message", text |-> <<"b">>],
          [t |-> "other", text |-> <<>>],
          [t |-> "bad_json", text |-> <<>>],
          [t |-> "bad_utf8", text |-> <<>>]}

\* line.decode('utf-8') raises UnicodeDecodeError, which the handler
\* `except json.JSONDecodeError` does not catch
raises_on_decode(ls) == \E i \in 1..Len(ls) : ls[i].t = "bad_utf8"

\* the loop body of _make_request: a line that is not JSON is skipped
chunk_text(l) ==
    IF l.t \in {"response", "message"} THEN l.text ELSE <<>>

\* OllamaProvider._make_request on the lines of a response
_make_request(ls) == Concat([i \in 1..Len(ls) |-> chunk_text(ls[i])])

-----------------------------------------------------------------------------
(* AIProvider._retry_with_backoff *)

\* an invocation of func, with whether it returned, and a time.sleep(w)
Call(ok) == [e |-> "call", ok |-> ok, w |-> 0]
Sleep(w) == [e |-> "sleep", ok |-> FALSE, w |-> w]

range_has_off_by_one(i, n) == i <= n

\* `for attempt in range(self.config.max_retries)`: i is an iteration
range_has(i, n) == i < n

should_sleep_always(a, max_retries) == TRUE

\* `if attempt < self.config.max_retries - 1`
should_sleep(a, max_retries) == a < max_retries - 1

wait_time_constant(retry_delay, a) == retry_delay

\* `wait_time = self.config.retry_delay * (2 ** attempt)`
wait_time(retry_delay, a) == retry_delay * Pow2(a)

catches_retriable_only(e) == e.kind \in {"timeout", "rate_limit"}

\* `except Exception as e`
catches(e) == e.kind \in ExceptionKinds

keep_first_exception(prev, e) == IF prev = NoException THEN e ELSE prev

\* `last_exception = e`
assign_last_exception(prev, e) == e

\* `raise RuntimeError(f"All {max_retries} retries failed for {self.name}:
\* {last_exception}")`, raised after the except block has ended: the
\* exception object is not chained, only its str() is in the message
RetriesFailed(n, max_retries, last) ==
    [type |-> "RuntimeError", provider |-> n, retries |-> max_retries,
     text |-> str(last), cause |-> NoException]

\* an exception that leaves _retry_with_backoff as it is
Propagated(e) == [type |-> e.kind, text |-> str(e)]

return_default(v) == [type |-> "value", text |-> <<>>]

\* `return func(*args, **kwargs)`
Returned(v) == [type |-> "value", text |-> v]

NoOutcome == [type |-> None]

\* a vision request with the media type it declares for the image
with_image(request, declared) ==
    [f \in DOMAIN request \cup {"media_type"} |->
        IF f = "media_type" THEN declared ELSE request[f]]

Request == IF op = "chat" THEN chat_request(name, config)
           ELSE with_image(vision_request(name, config),
                           media_type(name, image_format))

config_forced_by_vision(o, c) ==
    IF o = "vision" THEN [c EXCEPT !.temperature = VisionTemperature] ELSE c

\* self.config after chat() or vision(): the methods read self.config and
\* assign nothing to it; vision() passes its 0.1 as a literal of the request
config_after(o, c) == c

\* chat()/vision() up to the first attempt: lazy _initialize_client, then the
\* entry of _retry_with_backoff
Begin(o, fmt) ==
    /\ pc \in {"idle", "returned", "raised"}
    /\ image_format' = fmt
    /\ ops < MaxOps
    /\ ops' = ops + 1
    /\ op' = o
    /\ trace' = <<>>
    /\ sent' = <<>>
    /\ raised_kinds' = {}
    /\ last_raised' = NoException
    /\ lines' = <<>>
    /\ attempt' = 0
    /\ last_exception' = NoException
    /\ config' = config_after(o, config)
    /\ UNCHANGED <<name, kw, factory>>
    /\ \E init_ok \in BOOLEAN :
         IF client = None /\ ~init_ok
         THEN /\ init_count' = init_count + 1
              /\ initialized' = initialized
              /\ client' = client
              /\ pc' = "raised"
              /\ outcome' = init_error(name)
         ELSE /\ init_count' = IF client = None THEN init_count + 1
                                ELSE init_count
              /\ initialized' = TRUE
              /\ client' = IF client = None THEN client_after_init(name)
                            ELSE client
              /\ IF range_has(0, config.max_retries)
                 THEN /\ pc' = "attempt"
                      /\ outcome' = NoOutcome
                 ELSE /\ pc' = "raised"
                      /\ outcome' = RetriesFailed(name, config.max_retries,
                                                  NoException)

\* chat(prompt, system_prompt)
chat == Begin("chat", NoArg)

\* vision(image_data, prompt) with image_format left at its default "png"
vision == Begin("vision", <<"p", "n", "g">>)

\* vision(image_data, prompt, image_format)
vision_of_format == \E fmt \in ImageFormats : Begin("vision", fmt)

\* What func can return: the vendor's text; for Ollama, _make_request over
\* the response lines
Responses ==
    IF name = "ollama"
    THEN {ls \in SeqsUpTo(Lines, MaxLines) : ~raises_on_decode(ls)}
    ELSE {<<[t |-> "response", text |-> v]>> : v \in Texts}

Raisable ==
    IF name = "ollama" THEN Exceptions \cup {UnicodeDecodeError}
    ELSE Exceptions

\* one iteration of the loop in which func returns
_call_returns ==
    /\ pc = "attempt"
    /\ \E ls \in Responses :
         /\ lines' = ls
         /\ outcome' = Returned(_make_request(ls))
    /\ pc' = "returned"
    /\ trace' = Append(trace, Call(TRUE))
    /\ sent' = Append(sent, Request)
    /\ UNCHANGED <<name, kw, config, client, init_count, initialized,
                   image_format, op, ops, attempt, last_exception,
                   raised_kinds, last_raised, factory>>

\* one iteration of the loop in which func raises
_call_raises ==
    /\ pc = "attempt"
    /\ sent' = Append(sent, Request)
    /\ UNCHANGED <<name, kw, config, client, init_count, initialized,
                   image_format, op, ops, lines, factory>>
    /\ \E e \in Raisable :
         /\ raised_kinds' = raised_kinds \cup {e.kind}
         /\ last_raised' = e
         /\ IF catches(e)
            THEN /\ last_exception' = assign_last_exception(last_exception, e)
                 /\ trace' =
                      IF should_sleep(attempt, config.max_retries)
                      THEN trace \o <<Call(FALSE),
                             Sleep(wait_time(config.retry_delay, attempt))>>
                      ELSE Append(trace, Call(FALSE))
                 /\ IF range_has(attempt + 1, config.max_retries)
                    THEN /\ attempt' = attempt + 1
                         /\ pc' = "attempt"
                         /\ outcome' = outcome
                    ELSE /\ attempt' = attempt
                         /\ pc' = "raised"
                         /\ outcome' = RetriesFailed(name, config.max_retries,
                                                     last_exception')
            ELSE /\ last_exception' = last_exception
                 /\ trace' = Append(trace, Call(FALSE))
                 /\ attempt' = attempt
                 /\ pc' = "raised"
                 /\ outcome' = Propagated(e)

-----------------------------------------------------------------------------
(* The provider under the retry policy *)

RetryDelays == 1..MaxDelay

\* configured temperature, vision_model and language_model
Settings == {<<DefaultTemperature, <<>>, <<>>>>,
             <<MaxTemperature, <<"v", "m">>, <<"l", "m">>>>}

\* a provider instance before its first call
Fresh ==
    /\ client = None
    /\ init_count = 0
    /\ initialized = FALSE
    /\ image_format = NoArg
    /\ op = None
    /\ ops = 0
    /\ attempt = 0
    /\ last_exception = NoException
    /\ trace = <<>>
    /\ sent = <<>>
    /\ raised_kinds = {}
    /\ last_raised = NoException
    /\ lines = <<>>
    /\ outcome = NoOutcome

\* a process in which get_provider has not been called
NoFactoryCall ==
    /\ environ = <<>>
    /\ dotenv = <<>>
    /\ call = [made |-> FALSE]
    /\ result = [ok |-> FALSE, type |-> None]
    /\ module = NoModule

Init ==
    /\ name \in PROVIDERS
    /\ \E n \in 0..MaxRetriesBound, d \in RetryDelays, s \in Settings :
         kw = [api_key |-> <<"k">>, api_base |-> <<>>, vision_model |-> s[2],
               language_model |-> s[3], max_tokens |-> DefaultMaxTokens,
               temperature |-> s[1], top_p |-> DefaultTopP,
               max_retries |-> n, retry_delay |-> d]
    /\ config = ProviderConfig(kw)
    /\ pc = "idle"
    /\ Fresh
    /\ NoFactoryCall

Next == chat \/ vision \/ _call_returns \/ _call_raises

Spec == Init /\ [][Next]_vars

-----------------------------------------------------------------------------
(* Strings and dicts of the factory *)

\* dict.get(k, default)
get(d, k, default) == IF k \in DOMAIN d THEN d[k] ELSE default

\* the written name of a variant: a key of PROVIDERS, FACTORY_FUNCTIONS and
\* DEFAULT_MODELS
Chars(v) ==
    CASE v = "qwen" -> <<"q", "w", "e", "n">>
      [] v = "gemini" -> <<"g", "e", "m", "i", "n", "i">>
      [] v = "openai" -> <<"o", "p", "e", "n", "a", "i">>
      [] v = "anthropic" -> <<"a", "n", "t", "h", "r", "o", "p", "i", "c">>
      [] v = "ollama" -> <<"o", "l", "l", "a", "m", "a">>

\* PROVIDERS.keys(), in the order of the dict
ProviderKeys == <<Chars("qwen"), Chars("gemini"), Chars("openai"),
                  Chars("anthropic"), Chars("ollama")>>

\* `provider_name in PROVIDERS`
Registered(pn) == \E v \in PROVIDERS : Chars(v) = pn

Variant_default(pn) == "qwen"

\* PROVIDERS[provider_name] / FACTORY_FUNCTIONS[provider_name]
Variant(pn) == CHOOSE v \in PROVIDERS : Chars(v) = pn

FACTORY_FUNCTIONS_swapped(v) ==
    CASE v = "qwen" -> "create_qwen_provider"
      [] v = "gemini" -> "create_openai_provider"
      [] v = "openai" -> "create_gemini_provider"
      [] v = "anthropic" -> "create_anthropic_provider"
      [] v = "ollama" -> "create_ollama_provider"

\* FACTORY_FUNCTIONS[provider_name]
FACTORY_FUNCTIONS(v) ==
    CASE v = "qwen" -> "create_qwen_provider"
      [] v = "gemini" -> "create_gemini_provider"
      [] v = "openai" -> "create_openai_provider"
      [] v = "anthropic" -> "create_anthropic_provider"
      [] v = "ollama" -> "create_ollama_provider"

\* the class each create_<variant>_provider instantiates
provider_class(factory_fn) ==
    CASE factory_fn = "create_qwen_provider" -> "QwenProvider"
      [] factory_fn = "create_gemini_provider" -> "GeminiProvider"
      [] factory_fn = "create_openai_provider" -> "OpenAIProvider"
      [] factory_fn = "create_anthropic_provider" -> "AnthropicProvider"
      [] factory_fn = "create_ollama_provider" -> "OllamaProvider"

\* the `name` property of each class
name_property(class) ==
    CASE class = "QwenProvider" -> "qwen"
      [] class = "GeminiProvider" -> "gemini"
      [] class = "OpenAIProvider" -> "openai"
      [] class = "AnthropicProvider" -> "anthropic"
      [] class = "OllamaProvider" -> "ollama"

\* DEFAULT_MODELS[provider_name]["vision"], ["language"]
DEFAULT_MODELS(v, which) ==
    IF which = "vision" THEN default_vision_model(v)
    ELSE default_language_model(v)

\* the name of an environment variable: prefix and suffix make the name
EnvVar(prefix, suffix) == [prefix |-> prefix, suffix |-> suffix]

AI_PROVIDER == EnvVar(<<"A", "I">>, "_PROVIDER")
OLLAMA_BASE_URL == EnvVar(<<"O", "L", "L", "A", "M", "A">>, "_BASE_URL")
MAX_TOKENS == EnvVar(<<"M", "A", "X">>, "_TOKENS")
TEMPERATURE == EnvVar(<<"T", "E", "M", "P", "E", "R", "A", "T", "U", "R", 
                      "E">>, "")
MAX_RETRIES == EnvVar(<<"M", "A", "X">>, "_RETRIES")
RETRY_DELAY == EnvVar(<<"R", "E", "T", "R", "Y">>, "_DELAY")

\* api_key_env_map; Ollama's entry is None
HasKeyVar(v) == v # "ollama"

api_key_env_map(v) ==
    CASE v = "qwen" -> EnvVar(<<"D", "A", "S", "H", "S", "C", "O", "P", "E">>, "_API_KEY")
      [] v = "gemini" -> EnvVar(<<"G", "E", "M", "I", "N", "I">>, "_API_KEY")
      [] v = "openai" -> EnvVar(<<"O", "P", "E", "N", "A", "I">>, "_API_KEY")
      [] v = "anthropic" -> EnvVar(<<"A", "N", "T", "H", "R", "O", "P", "I", "C">>, "_API_KEY")

\* f"{prefix}_VISION_MODEL" and f"{prefix}_LANGUAGE_MODEL" with
\* prefix = provider_name.upper()
model_var(pn, which) ==
    EnvVar(upper(pn), IF which = "vision" THEN "_VISION_MODEL"
                      ELSE "_LANGUAGE_MODEL")

DASHSCOPE_URL ==
    <<"h", "t", "t", "p", "s", ":", "/", "/", "d", "a", "s", "h", "s", 
      "c", "o", "p", "e", ".", "a", "l", "i", "y", "u", "n", "c", "s", 
      ".", "c", "o", "m", "/", "c", "o", "m", "p", "a", "t", "i", "b", 
      "l", "e", "-", "m", "o", "d", "e", "/", "v", "1">>

LOCALHOST_URL ==
    <<"h", "t", "t", "p", ":", "/", "/", "l", "o", "c", "a", "l", "h", 
      "o", "s", "t", ":", "1", "1", "4", "3", "4">>

\* int(s) of a decimal literal, None for a string int() rejects
Digits == <<"0", "1", "2", "3", "4", "5", "6", "7", "8", "9">>
is_digit(c) == \E i \in 1..Len(Digits) : Digits[i] = c
digit(c) == (CHOOSE i \in 1..Len(Digits) : Digits[i] = c) - 1

RECURSIVE decimal(_)
decimal(s) ==
    IF s = <<>> THEN 0
    ELSE 10 * decimal(SubSeq(s, 1, Len(s) - 1)) + digit(s[Len(s)])

py_int(s) ==
    IF s # <<>> /\ \A i \in 1..Len(s) : is_digit(s[i])
    THEN [ok |-> TRUE, v |-> decimal(s)] ELSE [ok |-> FALSE]

\* float(s) in tenths, of a literal of digits with at most one decimal
py_float(s) ==
    IF py_int(s).ok THEN [ok |-> TRUE, v |-> 10 * decimal(s)]
    ELSE IF /\ Len(s) >= 3
            /\ s[Len(s) - 1] = "."
            /\ is_digit(s[Len(s)])
            /\ py_int(SubSeq(s, 1, Len(s) - 2)).ok
         THEN [ok |-> TRUE,
               v |-> 10 * decimal(SubSeq(s, 1, Len(s) - 2)) + digit(s[Len(s)])]
         ELSE [ok |-> FALSE]

-----------------------------------------------------------------------------
(* get_provider *)

\* _load_env_file: the dict parsed from the file, each of its entries put
\* into os.environ unless the variable is set (os.environ.setdefault)
setdefault_all(env, env_vars) ==
    [k \in DOMAIN env \cup DOMAIN env_vars |->
        IF k \in DOMAIN env THEN env[k] ELSE env_vars[k]]

lookup_file_first(env, env_vars, k, default) ==
    get(env_vars, k, get(env, k, default))

\* os.environ.get(k, env_vars.get(k, default))
lookup(env, env_vars, k, default) ==
    get(env, k, get(env_vars, k, default))

UnknownProvider_unlisted(pn) ==
    [ok |-> FALSE, type |-> "ValueError", unknown |-> pn, available |-> <<>>]

\* raise ValueError(f"Unknown provider: {provider_name}. Available
\* providers: {', '.join(PROVIDERS.keys())}")
UnknownProvider(pn) ==
    [ok |-> FALSE, type |-> "ValueError", unknown |-> pn,
     available |-> ProviderKeys]

\* int() or float() rejecting the value of a shared setting
BadSetting == [ok |-> FALSE, type |-> "ValueError", unknown |-> <<>>,
               available |-> <<>>]

\* the four common settings read from the environment, parsed
common_settings(env, env_vars) ==
    [max_tokens |->
        IF MAX_TOKENS \in DOMAIN env \cup DOMAIN env_vars
        THEN py_int(lookup(env, env_vars, MAX_TOKENS, <<>>))
        ELSE [ok |-> TRUE, v |-> DefaultMaxTokens],
     temperature |->
        IF TEMPERATURE \in DOMAIN env \cup DOMAIN env_vars
        THEN py_float(lookup(env, env_vars, TEMPERATURE, <<>>))
        ELSE [ok |-> TRUE, v |-> DefaultTemperature],
     max_retries |->
        IF MAX_RETRIES \in DOMAIN env \cup DOMAIN env_vars
        THEN py_int(lookup(env, env_vars, MAX_RETRIES, <<>>))
        ELSE [ok |-> TRUE, v |-> DefaultMaxRetries],
     retry_delay |->
        IF RETRY_DELAY \in DOMAIN env \cup DOMAIN env_vars
        THEN py_float(lookup(env, env_vars, RETRY_DELAY, <<>>))
        ELSE [ok |-> TRUE, v |-> DefaultRetryDelay]]

\* create_<variant>_provider(**provider_kwargs): the ProviderConfig it builds.
\* pk holds api_key, base_url (NoArg when not passed), the model names and
\* the numeric keyword arguments.
create_provider(v, pk, env) ==
    ProviderConfig(
        [api_key |->
            IF v = "ollama" THEN <<>>
            ELSE py_or(pk.api_key, get(env, api_key_env_map(v), <<>>)),
         api_base |->
            CASE v = "qwen" -> DASHSCOPE_URL
              [] v = "ollama" ->
                   py_or(IF pk.base_url = NoArg THEN LOCALHOST_URL
                         ELSE pk.base_url,
                         get(env, OLLAMA_BASE_URL, LOCALHOST_URL))
              [] OTHER -> <<>>,
         vision_model |-> pk.vision_model,
         language_model |-> pk.language_model,
         max_tokens |-> pk.max_tokens,
         temperature |-> pk.temperature,
         top_p |-> pk.top_p,
         max_retries |-> pk.max_retries,
         retry_delay |-> pk.retry_delay])

override_ignored(kwargs, f, v) == v

\* provider_kwargs = {..., **kwargs}: a keyword argument of the call replaces
\* the value read from the environment
override(kwargs, f, v) == IF f \in DOMAIN kwargs THEN kwargs[f] ELSE v

is_not_None(x) == x # NoArg

\* `if base_url:`
truthy(x) == x # NoArg /\ x # <<>>

\* get_provider after _load_env_file: env is os.environ as the file left it
resolve(a, env_vars, env) ==
    LET given == IF a.provider_name = NoArg
                 THEN lookup(env, env_vars, AI_PROVIDER, Chars("qwen"))
                 ELSE a.provider_name
        pn == lower(given)
    IN  IF ~Registered(pn) THEN UnknownProvider(pn)
        ELSE
        LET v == Variant(pn)
            api_key == IF a.api_key = NoArg /\ HasKeyVar(v)
                       THEN lookup(env, env_vars, api_key_env_map(v), <<>>)
                       ELSE a.api_key
            vision_model ==
                IF a.vision_model = NoArg
                THEN lookup(env, env_vars, model_var(pn, "vision"),
                            DEFAULT_MODELS(v, "vision"))
                ELSE a.vision_model
            language_model ==
                IF a.language_model = NoArg
                THEN lookup(env, env_vars, model_var(pn, "language"),
                            DEFAULT_MODELS(v, "language"))
                ELSE a.language_model
            cs == common_settings(env, env_vars)
            base_url == lookup(env, env_vars, OLLAMA_BASE_URL, NoArg)
            kwargs == a.kwargs
            num(f) == override(kwargs, f, cs[f].v)
        IN  IF \E f \in DOMAIN cs : ~cs[f].ok THEN BadSetting
            ELSE [ok |-> TRUE, type |-> None,
                  name |-> name_property(provider_class(FACTORY_FUNCTIONS(v))),
                  config |-> create_provider(v,
                     [api_key |-> api_key,
                      base_url |-> IF v = "ollama" /\ truthy(base_url)
                                   THEN base_url ELSE NoArg,
                      vision_model |-> vision_model,
                      language_model |-> language_model,
                      max_tokens |-> num("max_tokens"),
                      temperature |-> num("temperature"),
                      top_p |-> IF "top_p" \in DOMAIN kwargs
                                THEN kwargs["top_p"] ELSE DefaultTopP,
                      max_retries |-> num("max_retries"),
                      retry_delay |-> num("retry_delay")], env)]

\* get_provider(provider_name, api_key, vision_model, language_model,
\* **kwargs) with env_file left to its default, the .env file of the
\* working directory: what it does to os.environ and what it gives
get_provider_call(a) ==
    LET env_vars == dotenv
    IN  /\ environ' = setdefault_all(environ, env_vars)
        /\ result' = resolve(a, env_vars, environ')
        /\ call' = [made |-> TRUE, args |-> a, environ |-> environ]

\* a call of get_provider from outside the modules
get_provider(a) ==
    /\ get_provider_call(a)
    /\ UNCHANGED <<name, kw, config, pc, instance, dotenv, module>>

-----------------------------------------------------------------------------
(* Calls of get_provider in a process whose environment and .env file      *)
(* are about one variant and hold one variable of another variant          *)

\* how many variables the process environment and the file set, together
MaxVars == 2

\* a variant other than q
Foreign(q) ==
    CASE q = "qwen" -> "gemini"
      [] q = "gemini" -> "openai"
      [] q = "openai" -> "anthropic"
      [] q = "anthropic" -> "ollama"
      [] q = "ollama" -> "qwen"

ForeignKeyed(q) == IF HasKeyVar(Foreign(q)) THEN Foreign(q) ELSE "gemini"

\* the variables that may be set
Universe(q) ==
    {AI_PROVIDER, model_var(Chars(q), "vision"),
     model_var(Chars(q), "language"), api_key_env_map(ForeignKeyed(q))}
    \cup (IF HasKeyVar(q) THEN {api_key_env_map(q)} ELSE {OLLAMA_BASE_URL})

Tag(k) ==
    CASE k.suffix = "_API_KEY" -> "k"
      [] k.suffix = "_VISION_MODEL" -> "v"
      [] k.suffix = "_LANGUAGE_MODEL" -> "l"
      [] k.suffix = "_BASE_URL" -> "u"
      [] OTHER -> "o"

\* the values a variable may hold in layer "e" (process environment) or
\* "f" (.env file): empty, or a string that tells layer and variable
Values(layer, k, q) ==
    IF k = AI_PROVIDER
    THEN {<<>>, IF layer = "e" THEN upper(Chars(q)) ELSE Chars(Foreign(q))}
    ELSE {<<>>, <<layer, Tag(k)>> \o k.prefix}

Dicts(layer, q, cap) ==
    UNION {{d \in [K -> UNION {Values(layer, k, q) : k \in K}] :
               \A k \in K : d[k] \in Values(layer, k, q)} :
           K \in {K \in SUBSET Universe(q) : Cardinality(K) <= cap}}

Unknown == <<"u", "n", "k", "n", "o", "w", "n", "v", "e", "n", "d", "o", "r">>

\* the arguments of a call: a registered name or none, with no field
\* argument, with all of them, with all of them empty or with one of them;
\* or another spelling of a name
Arguments(n, k, v, l) ==
    [provider_name |-> n, api_key |-> k, vision_model |-> v,
     language_model |-> l, kwargs |-> <<>>]

Args(q) ==
    {Arguments(n, NoArg, NoArg, NoArg) :
        n \in {NoArg, Chars(q), upper(Chars(q)), Unknown, <<>>,
               Chars(q) \o <<"2">>}}
    \cup {Arguments(n, <<"x", "k">>, <<"x", "v">>, <<"x", "l">>) :
             n \in {NoArg, Chars(q)}}
    \cup {Arguments(n, <<>>, <<>>, <<>>) : n \in {NoArg, Chars(q)}}
    \cup {Arguments(Chars(q), <<"x", "k">>, NoArg, NoArg),
          Arguments(Chars(q), NoArg, <<"x", "v">>, NoArg),
          Arguments(Chars(q), NoArg, NoArg, <<"x", "l">>)}

InitFactory ==
    /\ name \in PROVIDERS
    /\ kw = NoArg
    /\ config = NoArg
    /\ pc = "factory"
    /\ Fresh
    /\ environ \in Dicts("e", name, MaxVars)
    /\ dotenv \in Dicts("f", name, MaxVars)
    /\ Cardinality(DOMAIN environ) + Cardinality(DOMAIN dotenv) <= MaxVars
    /\ call = [made |-> FALSE]
    /\ result = [ok |-> FALSE, type |-> None]
    /\ module = NoModule

resolve_provider ==
    \E a \in Args(name) :
        /\ pc = "factory"
        /\ get_provider(a)

NextFactory == resolve_provider

SpecFactory == InitFactory /\ [][NextFactory]_vars

-----------------------------------------------------------------------------
(* Calls of get_provider in a process whose environment and .env file hold *)
(* the common settings, with and without keyword arguments                 *)

CommonVars == {MAX_TOKENS, TEMPERATURE, MAX_RETRIES, RETRY_DELAY}

\* the strings a common setting may hold: in range, out of range, not a
\* number or empty in the process environment, in range in the file
SettingValues(layer, k) ==
    IF layer = "f"
    THEN CASE k = MAX_TOKENS -> {<<"1", "6">>}
           [] k = TEMPERATURE -> {<<"0", ".", "2">>}
           [] k = MAX_RETRIES -> {<<"2">>}
           [] k = RETRY_DELAY -> {<<"4">>}
    ELSE CASE k = MAX_TOKENS -> {<<"8">>, <<"0">>, <<"x">>}
           [] k = TEMPERATURE -> {<<"1", ".", "5">>, <<"3">>}
           [] k = MAX_RETRIES -> {<<"5">>, <<>>}
           [] k = RETRY_DELAY -> {<<"2">>, <<"0", ".", "5">>}

SettingDicts(layer, cap) ==
    UNION {{d \in [K -> UNION {SettingValues(layer, k) : k \in K}] :
               \A k \in K : d[k] \in SettingValues(layer, k)} :
           K \in {K \in SUBSET CommonVars : Cardinality(K) <= cap}}

\* keyword arguments of a call: none, one setting, or all four
Overrides ==
    {<<>>,
     [max_tokens |-> 100], [temperature |-> 3], [temperature |-> 50],
     [max_retries |-> 1], [retry_delay |-> 20],
     [max_tokens |-> 100, temperature |-> 3, max_retries |-> 1,
      retry_delay |-> 20]}

WithKwargs(a, kwargs) == [a EXCEPT !.kwargs = kwargs]

SettingsArgs(q) ==
    {WithKwargs(Arguments(Chars(q), NoArg, NoArg, NoArg), k) : k \in Overrides}

InitSettings ==
    /\ name \in PROVIDERS
    /\ kw = NoArg
    /\ config = NoArg
    /\ pc = "settings"
    /\ Fresh
    /\ environ \in SettingDicts("e", MaxVars)
    /\ dotenv \in SettingDicts("f", MaxVars)
    /\ Cardinality(DOMAIN environ) + Cardinality(DOMAIN dotenv) <= MaxVars
    /\ call = [made |-> FALSE]
    /\ result = [ok |-> FALSE, type |-> None]
    /\ module = NoModule

resolve_settings ==
    \E a \in SettingsArgs(name) :
        /\ pc = "settings"
        /\ get_provider(a)

NextSettings == resolve_settings

SpecSettings == InitSettings /\ [][NextSettings]_vars

-----------------------------------------------------------------------------
(* The capability flag of a provider *)

\* `m in s`: m is a substring of s
Contains(s, m) ==
    \E i \in 0..(Len(s) - Len(m)) : SubSeq(s, i + 1, i + Len(m)) = m

in_exact(m, s) == Contains(s, m)

\* `m in self.config.vision_model.lower()`
in_lower(m, s) == Contains(lower(s), m)

ollama_vision_models ==
    {<<"l", "l", "a", "v", "a">>, <<"b", "a", "k", "l", "l", "a", "v", "a">>,
     <<"m", "o", "o", "n", "d", "r", "e", "a", "m">>}

openai_vision_models ==
    {<<"g", "p", "t", "-", "4", "o">>, <<"g", "p", "t", "-", "4", "-", "t", "u", "r", "b", "o">>,
     <<"g", "p", "t", "-", "4", "-", "v", "i", "s", "i", "o", "n">>}

always_supports_vision(c) == TRUE

qwen_supports_vision(c) == TRUE

gemini_supports_vision(c) == TRUE

openai_supports_vision(c) ==
    \E m \in openai_vision_models : in_lower(m, c.vision_model)

anthropic_supports_vision(c) == TRUE

ollama_supports_vision(c) ==
    \E m \in ollama_vision_models : in_lower(m, c.vision_model)

\* the model names a provider may be configured with: a family name with or
\* without something before and after it
ModelFamilies ==
    {<<"l", "l", "a", "v", "a">>,
     <<"L", "L", "a", "V", "A">>,
     <<"b", "a", "k", "l", "l", "a", "v", "a">>,
     <<"m", "o", "o", "n", "d", "r", "e", "a", "m">>,
     <<"l", "l", "a", "v">>,
     <<"l", "l", "a", "m", "a", "3">>,
     <<"g", "p", "t", "-", "4", "o">>,
     <<"G", "P", "T", "-", "4", "o">>,
     <<"g", "p", "t", "-", "4", "-", "t", "u", "r", "b", "o">>,
     <<"g", "p", "t", "-", "4", "-", "v", "i", "s", "i", "o", "n">>,
     <<"g", "p", "t", "-", "3", ".", "5", "-", "t", "u", "r", "b", "o">>,
     <<"g", "p", "t", "-", "4">>,
     <<"q", "w", "e", "n", "-", "v", "l", "-", "p", "l", "u", "s">>,
     <<>>}

ModelNames ==
    {pre \o fam \o post :
        pre \in {<<>>, <<"x", "-">>}, fam \in ModelFamilies,
        post \in {<<>>, <<":", "1", "3", "b">>}}

InitCapability ==
    /\ name \in PROVIDERS
    /\ \E vm \in ModelNames :
         kw = [api_key |-> <<"k">>, api_base |-> <<>>, vision_model |-> vm,
               language_model |-> <<>>, max_tokens |-> DefaultMaxTokens,
               temperature |-> DefaultTemperature, top_p |-> DefaultTopP,
               max_retries |-> DefaultMaxRetries,
               retry_delay |-> DefaultRetryDelay]
    /\ config = ProviderConfig(kw)
    /\ pc = "capability"
    /\ Fresh
    /\ NoFactoryCall

\* reading provider.supports_vision
supports_vision ==
    /\ pc = "capability"
    /\ op' = "supports_vision"
    /\ outcome' =
         [type |-> "bool",
          value |-> CASE name = "qwen" -> qwen_supports_vision(config)
                      [] name = "gemini" -> gemini_supports_vision(config)
                      [] name = "openai" -> openai_supports_vision(config)
                      [] name = "anthropic" -> anthropic_supports_vision(config)
                      [] name = "ollama" -> ollama_supports_vision(config)]
    /\ UNCHANGED <<name, kw, config, pc, client, init_count, initialized,
                   image_format, ops, attempt, last_exception, trace, sent,
                   raised_kinds, last_raised, lines, factory>>

NextCapability == supports_vision

SpecCapability == InitCapability /\ [][NextCapability]_vars

-----------------------------------------------------------------------------
(* vision() with an image_format argument, under the retry policy *)

InitImage ==
    /\ name \in PROVIDERS
    /\ \E n \in 1..2 :
         kw = [api_key |-> <<"k">>, api_base |-> <<>>, vision_model |-> <<>>,
               language_model |-> <<>>, max_tokens |-> DefaultMaxTokens,
               temperature |-> DefaultTemperature, top_p |-> DefaultTopP,
               max_retries |-> n, retry_delay |-> DefaultRetryDelay]
    /\ config = ProviderConfig(kw)
    /\ pc = "idle"
    /\ Fresh
    /\ NoFactoryCall

NextImage == vision_of_format \/ _call_returns \/ _call_raises

SpecImage == InitImage /\ [][NextImage]_vars

-----------------------------------------------------------------------------
(* chat()/vision() under a vendor call that always ends *)

InitLive ==
    /\ name \in PROVIDERS
    /\ \E n \in 0..MaxRetriesBound :
         kw = [api_key |-> <<"k">>, api_base |-> <<>>, vision_model |-> <<>>,
               language_model |-> <<>>, max_tokens |-> DefaultMaxTokens,
               temperature |-> DefaultTemperature, top_p |-> DefaultTopP,
               max_retries |-> n, retry_delay |-> DefaultRetryDelay]
    /\ config = ProviderConfig(kw)
    /\ pc = "idle"
    /\ Fresh
    /\ NoFactoryCall

NextLive == chat \/ vision \/ _call_returns \/ _call_raises

\* func(*args, **kwargs) and time.sleep(wait_time) are blocking calls of the
\* one thread that runs the loop: once the vendor call ends, the iteration
\* is carried out
VendorCallEnds == WF_vars(_call_returns \/ _call_raises)

SpecLive == InitLive /\ [][NextLive]_vars /\ VendorCallEnds

-----------------------------------------------------------------------------
(* PDFScanner and Translator *)

\* AIProviderConfig.__post_init__ under os.environ env: an empty field is
\* filled from the environment (key_env_map of config.py has the entries of
\* api_key_env_map)
AIProviderConfig(c, env) ==
    LET provider == IF c.provider = <<>>
                    THEN get(env, AI_PROVIDER, Chars("qwen")) ELSE c.provider
        pn == lower(provider)
    IN  [provider |-> provider,
         api_key |->
            IF c.api_key # <<>> THEN c.api_key
            ELSE IF Registered(pn) /\ HasKeyVar(Variant(pn))
                 THEN get(env, api_key_env_map(Variant(pn)), <<>>)
                 ELSE <<>>,
         vision_model |->
            IF c.vision_model # <<>> THEN c.vision_model
            ELSE get(env, model_var(provider, "vision"), <<>>),
         language_model |->
            IF c.language_model # <<>> THEN c.language_model
            ELSE get(env, model_var(provider, "language"), <<>>)]

\* config.py on import: _load_env puts the .env file into os.environ with
\* setdefault, then config = PipelineConfig() builds AIProviderConfig()
GlobalConfig ==
    AIProviderConfig([provider |-> <<>>, api_key |-> <<>>,
                      vision_model |-> <<>>, language_model |-> <<>>],
                     setdefault_all(environ, dotenv))

\* the cfg argument of a module: none, or a PipelineConfig whose ai part was
\* built with these arguments
Cfgs(q) ==
    {[given |-> FALSE]}
    \cup {[given |-> TRUE,
           ai |-> AIProviderConfig([provider |-> p, api_key |-> f[1],
                                    vision_model |-> f[2],
                                    language_model |-> f[3]],
                                   setdefault_all(environ, dotenv))] :
            p \in {<<>>, Chars(Foreign(q))},
            f \in {<<<<>>, <<>>, <<>>>>,
                   <<<<"c", "k">>, <<"c", "v">>, <<"c", "l">>>>}}

NoProvider == [ok |-> FALSE, type |-> None]

\* a provider built earlier, for the provider argument of a module
GivenProvider(q) ==
    resolve(Arguments(Chars(q), <<"p", "k">>, NoArg, NoArg), <<>>, <<>>)

\* PDFScanner.__init__ and Translator.__init__: self.config = cfg or config;
\* self.provider = provider, or get_provider() when it is None
module_init(class, cfg, provider) ==
    /\ pc = "modules"
    /\ IF provider # NoProvider
       THEN UNCHANGED <<environ, call, result>>
       ELSE get_provider_call(Arguments(NoArg, NoArg, NoArg, NoArg))
    /\ module' = [class |-> class,
                  config |-> IF cfg.given THEN cfg.ai ELSE GlobalConfig,
                  created |-> provider = NoProvider,
                  provider |-> IF provider # NoProvider THEN provider
                               ELSE result']
    /\ UNCHANGED <<name, kw, config, pc, instance, dotenv>>

PDFScanner ==
    \E cfg \in Cfgs(name), provider \in {NoProvider, GivenProvider(name)} :
        module_init("PDFScanner", cfg, provider)

Translator ==
    \E cfg \in Cfgs(name), provider \in {NoProvider, GivenProvider(name)} :
        module_init("Translator", cfg, provider)

InitModules ==
    /\ name \in PROVIDERS
    /\ kw = NoArg
    /\ config = NoArg
    /\ pc = "modules"
    /\ Fresh
    /\ environ \in Dicts("e", name, MaxVars)
    /\ dotenv \in Dicts("f", name, MaxVars)
    /\ Cardinality(DOMAIN environ) + Cardinality(DOMAIN dotenv) <= MaxVars
    /\ call = [made |-> FALSE]
    /\ result = [ok |-> FALSE, type |-> None]
    /\ module = NoModule

NextModules == PDFScanner \/ Translator

SpecModules == InitModules /\ [][NextModules]_vars

-----------------------------------------------------------------------------
(* BookPipeline *)

\* the Provider objects of a process, named in the order of their creation
Objects == <<"provider_1", "provider_2", "provider_3">>

\* load_config(provider, api_key): the global config, updated in place
load_config(c, provider, api_key) ==
    [c EXCEPT !.provider = IF truthy(provider) THEN provider ELSE @,
              !.api_key = IF truthy(api_key) THEN api_key ELSE @]

\* PDFScanner(provider=given) and Translator(provider=given): the object the
\* component holds is the one given, or one it creates when given is None
component(class, cfg, given, fresh) ==
    [class |-> class, config |-> cfg,
     provider |-> IF given # None THEN given ELSE fresh]

\* BookPipeline.__init__(provider_name, api_key)
BookPipeline_init(provider_name, api_key) ==
    /\ pc = "pipeline"
    /\ get_provider_call(Arguments(provider_name, api_key, NoArg, NoArg))
    /\ module' =
         IF ~result'.ok THEN NoModule
         ELSE LET cfg == load_config(GlobalConfig, provider_name, api_key)
                  provider == Objects[1]
              IN  [class |-> "BookPipeline",
                   heap |-> [o \in {provider} |-> result'],
                   provider |-> provider,
                   scanner |-> component("PDFScanner", cfg, provider,
                                         Objects[2]),
                   translator |-> component("Translator", cfg, provider,
                                            Objects[3])]
    /\ UNCHANGED <<name, kw, config, pc, instance, dotenv>>

BookPipeline ==
    \E provider_name \in {NoArg, Chars(name), upper(Chars(name)), Unknown},
       api_key \in {NoArg, <<"p", "k">>} :
        BookPipeline_init(provider_name, api_key)

InitPipeline ==
    /\ name \in PROVIDERS
    /\ kw = NoArg
    /\ config = NoArg
    /\ pc = "pipeline"
    /\ Fresh
    /\ environ \in Dicts("e", name, MaxVars)
    /\ dotenv \in Dicts("f", name, MaxVars)
    /\ Cardinality(DOMAIN environ) + Cardinality(DOMAIN dotenv) <= MaxVars
    /\ call = [made |-> FALSE]
    /\ result = [ok |-> FALSE, type |-> None]
    /\ module = NoModule

NextPipeline == BookPipeline

SpecPipeline == InitPipeline /\ [][NextPipeline]_vars

-----------------------------------------------------------------------------
(* The image payload of vision() *)

\* the longest image_data
MaxImageLen == 4

\* byte values of image_data: all bits clear, all bits set, mixed
ImageBytes == {0, 77, 200, 255}

\* the alphabet of base64.standard_b64encode, as characters
B64Chars ==
    <<"A", "B", "C", "D", "E", "F", "G", "H", "I", "J", "K", "L", "M",
      "N", "O", "P", "Q", "R", "S", "T", "U", "V", "W", "X", "Y", "Z",
      "a", "b", "c", "d", "e", "f", "g", "h", "i", "j", "k", "l", "m",
      "n", "o", "p", "q", "r", "s", "t", "u", "v", "w", "x", "y", "z",
      "0", "1", "2", "3", "4", "5", "6", "7", "8", "9", "+", "/">>

\* the ASCII byte standard_b64encode writes for a 6-bit value
b64_byte(sextet) ==
    IF sextet < 26 THEN 65 + sextet
    ELSE IF sextet < 52 THEN 97 + (sextet - 26)
    ELSE IF sextet < 62 THEN 48 + (sextet - 52)
    ELSE IF sextet = 62 THEN 43 ELSE 47

\* the ASCII byte of the padding character "="
b64_pad == 61

\* the four 6-bit values of a 24-bit group
sextets(n) ==
    <<n \div 262144, (n \div 4096) % 64, (n \div 64) % 64, n % 64>>

b64encode_unpadded(data) ==
    LET RECURSIVE enc(_)
        enc(d) ==
            IF d = <<>> THEN <<>>
            ELSE IF Len(d) = 1
            THEN LET q == sextets(d[1] * 65536)
                 IN  <<b64_byte(q[1]), b64_byte(q[2])>>
            ELSE IF Len(d) = 2
            THEN LET q == sextets(d[1] * 65536 + d[2] * 256)
                 IN  <<b64_byte(q[1]), b64_byte(q[2]), b64_byte(q[3])>>
            ELSE LET q == sextets(d[1] * 65536 + d[2] * 256 + d[3])
                 IN  <<b64_byte(q[1]), b64_byte(q[2]), b64_byte(q[3]),
                       b64_byte(q[4])>> \o enc(SubSeq(d, 4, Len(d)))
    IN  enc(data)

\* base64.standard_b64encode(image_data): bytes to ASCII bytes, three bytes
\* to a group of four, the last group padded with "="
standard_b64encode(data) ==
    LET RECURSIVE enc(_)
        enc(d) ==
            IF d = <<>> THEN <<>>
            ELSE IF Len(d) = 1
            THEN LET q == sextets(d[1] * 65536)
                 IN  <<b64_byte(q[1]), b64_byte(q[2]), b64_pad, b64_pad>>
            ELSE IF Len(d) = 2
            THEN LET q == sextets(d[1] * 65536 + d[2] * 256)
                 IN  <<b64_byte(q[1]), b64_byte(q[2]), b64_byte(q[3]),
                       b64_pad>>
            ELSE LET q == sextets(d[1] * 65536 + d[2] * 256 + d[3])
                 IN  <<b64_byte(q[1]), b64_byte(q[2]), b64_byte(q[3]),
                       b64_byte(q[4])>> \o enc(SubSeq(d, 4, Len(d)))
    IN  enc(data)

\* chr(b) for the ASCII bytes base64 writes
chr(b) ==
    IF b = b64_pad THEN "="
    ELSE B64Chars[CHOOSE i \in 1..64 : b64_byte(i - 1) = b]

\* bytes.decode("utf-8") of ASCII bytes: one character per byte
decode_utf8(bs) == [i \in 1..Len(bs) |-> chr(bs[i])]

\* f"data:image/{image_format};base64,{image_base64}"
data_url(media, image_base64) ==
    <<"d", "a", "t", "a", ":">> \o media
       \o <<";", "b", "a", "s", "e", "6", "4", ",">> \o image_base64

\* the image part each variant's vision() builds from image_data: Gemini
\* passes the bytes as they are, the others the base64 text
image_part(n, fmt, image_data) ==
    LET image_base64 == decode_utf8(standard_b64encode(image_data))
    IN  CASE n = "qwen" ->
               [type |-> "image_url",
                url |-> data_url(qwen_media_type(fmt), image_base64)]
          [] n = "openai" ->
               [type |-> "image_url", detail |-> "high",
                url |-> data_url(openai_media_type(fmt), image_base64)]
          [] n = "anthropic" ->
               [type |-> "base64", media_type |-> anthropic_media_type(fmt),
                data |-> image_base64]
          [] n = "gemini" ->
               [type |-> "bytes", mime_type |-> gemini_media_type(fmt),
                data |-> image_data]
          [] n = "ollama" ->
               [type |-> "images", data |-> image_base64]

\* vision(image_data, prompt, image_format) up to the request it builds
vision_image_part ==
    /\ pc = "image"
    /\ pc' = "encoded"
    /\ op' = "vision"
    /\ image_format' = kw.image_format
    /\ sent' = <<image_part(name, kw.image_format, kw.image_data)>>
    /\ UNCHANGED <<name, kw, config, client, init_count, initialized, ops,
                   attempt, last_exception, trace, raised_kinds, last_raised,
                   lines, outcome, factory>>

InitPayload ==
    /\ name \in PROVIDERS
    /\ \E data \in SeqsUpTo(ImageBytes, MaxImageLen),
          fmt \in {<<"p", "n", "g">>, <<"j", "p", "g">>} :
         kw = [image_data |-> data, image_format |-> fmt]
    /\ config = NoArg
    /\ pc = "image"
    /\ Fresh
    /\ NoFactoryCall

NextPayload == vision_image_part

SpecPayload == InitPayload /\ [][NextPayload]_vars

-----------------------------------------------------------------------------
(* PDFScanner.merge_scripture_texts *)

\* the longest list of pages
MaxPages == 3

\* PageContent(page_number, raw_text, greek_hebrew_text, main_content)
PageContent(n, g, m) ==
    [page_number |-> n, greek_hebrew_text |-> g, main_content |-> m]

\* the scripture text and the commentary of page n, when it has them
ScriptureOf(n) == <<<<"a">>, <<"b">>, <<"c">>, <<"d">>>>[n]
CommentaryOf(n) == <<<<"w">>, <<"x">>, <<"y">>, <<"z">>>>[n]

\* the forms of page n: with or without scripture text (None or empty)
\* and with or without main_content
PagesOf(n) ==
    {PageContent(n, g, m) : g \in {NoArg, <<>>, ScriptureOf(n)},
                            m \in {<<>>, CommentaryOf(n)}}

\* the lists of pages scan_pdf may give
PageLists ==
    UNION {{ps \in [1..k -> UNION {PagesOf(n) : n \in 1..k}] :
              \A n \in 1..k : ps[n] \in PagesOf(n)} : k \in 0..MaxPages}

\* str.strip()
strip(text) ==
    LET space(c) == c \in {" ", "\n", "\t"}
        RECURSIVE lstrip(_)
        lstrip(t) == IF t # <<>> /\ space(Head(t)) THEN lstrip(Tail(t)) ELSE t
        RECURSIVE rstrip(_)
        rstrip(t) == IF t # <<>> /\ space(t[Len(t)])
                     THEN rstrip(SubSeq(t, 1, Len(t) - 1)) ELSE t
    IN  rstrip(lstrip(text))

\* str(pending_pages): "[1, 2]"
str_list(ns) ==
    LET RECURSIVE items(_)
        items(k) == IF k > Len(ns) THEN <<>>
                    ELSE (IF k > 1 THEN <<",", " ">> ELSE <<>>)
                         \o <<Digits[ns[k] + 1]>> \o items(k + 1)
    IN  <<"[">> \o items(1) \o <<"]">>

\* f"[Scripture from pages {pending_pages}]\n{page.greek_hebrew_text}\n\n
\* {page.main_content}"
merged_content(pending_pages, scripture, main_content) ==
    <<"[Scripture from pages ">> \o str_list(pending_pages) \o <<"]", "\n">>
       \o scripture \o <<"\n", "\n">> \o main_content

\* PDFScanner.merge_scripture_texts(pages)
merge_scripture_texts(pages) ==
    LET RECURSIVE loop(_, _, _, _)
        loop(i, merged, pending_scripture, pending_pages) ==
            IF i > Len(pages)
            THEN IF pending_scripture # <<>> /\ merged # <<>>
                 THEN [merged EXCEPT ![Len(merged)].greek_hebrew_text =
                                        strip(pending_scripture)]
                 ELSE merged
            ELSE LET page == pages[i]
                 IN  IF truthy(page.greek_hebrew_text)
                     THEN loop(i + 1, merged,
                               pending_scripture \o <<" ">>
                                  \o page.greek_hebrew_text,
                               Append(pending_pages, page.page_number))
                     ELSE IF pending_scripture # <<>> /\ pending_pages # <<>>
                     THEN LET scripture == strip(pending_scripture)
                          IN  loop(i + 1,
                                   Append(merged,
                                      [page EXCEPT
                                         !.greek_hebrew_text = scripture,
                                         !.main_content =
                                            merged_content(pending_pages,
                                               scripture, page.main_content)]),
                                   <<>>, <<>>)
                     ELSE loop(i + 1, Append(merged, page),
                               pending_scripture, pending_pages)
    IN  loop(1, <<>>, <<>>, <<>>)

\* a call of merge_scripture_texts on the pages of a scan
merge ==
    /\ pc = "scanned"
    /\ pc' = "merged"
    /\ op' = "merge_scripture_texts"
    /\ outcome' = [type |-> "list", value |-> merge_scripture_texts(kw.pages)]
    /\ UNCHANGED <<name, kw, config, client, init_count, initialized,
                   image_format, ops, attempt, last_exception, trace, sent,
                   raised_kinds, last_raised, lines, factory>>

InitMerge ==
    /\ name \in PROVIDERS
    /\ \E pages \in PageLists : kw = [pages |-> pages]
    /\ config = NoArg
    /\ pc = "scanned"
    /\ Fresh
    /\ NoFactoryCall

NextMerge == merge

SpecMerge == InitMerge /\ [][NextMerge]_vars

-----------------------------------------------------------------------------
(* Translator.translate_batch *)

\* the largest batch_size
MaxBatch == 2

\* the longest list of texts: a full batch and a text more
MaxTexts == MaxBatch + 1

\* the texts to translate: text k of a list is a text of its own
TextLists == {[k \in 1..n |-> <<"T", Digits[k + 1]>>] : n \in 0..MaxTexts}

\* "[TRANS_k]" as the model writes it: the opening "[TRANS_", the number and
\* the closing bracket
TransTag(k) == <<"[TRANS_", Digits[k + 1], "]">>

\* what a response is made of: tags, translated text within white space,
\* the last tag with its text, an opening "[TRANS_" that no number follows
Pieces ==
    {TransTag(k) : k \in 1..MaxBatch}
       \cup {<<" ", "y", "\n">>, TransTag(MaxBatch) \o <<" ", "y", "\n">>,
             <<"[TRANS_">>}

\* the responses of provider.chat to the prompt of a batch
BatchResponses == {Concat(ps) : ps \in SeqsUpTo(Pieces, MaxBatch)}

\* the response of provider.chat to the prompt of one paragraph: a
\* translation of that paragraph, within white space
ParagraphResponse(text) == <<" ", "z", "h", ":">> \o text \o <<"\n">>

\* the places of response where "[TRANS_k]" stands
tag_at(response, k) ==
    {i \in 1..(Len(response) - 2) : SubSeq(response, i, i + 2) = TransTag(k)}

\* the end of group 1 from place `from` on: before the next "[TRANS_", or
\* the end of the response
group_end(response, from) ==
    LET openers == {i \in from..Len(response) : response[i] = "[TRANS_"}
    IN  IF openers = {} THEN Len(response)
        ELSE (CHOOSE i \in openers : \A o \in openers : i <= o) - 1

re_search_greedy(response, k) ==
    LET at == tag_at(response, k)
    IN  IF at = {} THEN [matched |-> FALSE]
        ELSE LET i == CHOOSE a \in at : \A b \in at : a <= b
             IN  [matched |-> TRUE,
                  group |-> SubSeq(response, i + 3, Len(response))]

\* re.search(rf'\[TRANS_{k}\](.*?)(?=\[TRANS_|\Z)', response, re.DOTALL):
\* the leftmost tag k, group 1 running to the next "[TRANS_" or to the end
re_search(response, k) ==
    LET at == tag_at(response, k)
    IN  IF at = {} THEN [matched |-> FALSE]
        ELSE LET i == CHOOSE a \in at : \A b \in at : a <= b
             IN  [matched |-> TRUE,
                  group |-> SubSeq(response, i + 3,
                                   group_end(response, i + 3))]

\* translate_paragraph(text): `return response.strip()`
translate_paragraph(text, response) == strip(response)

\* texts[i:i + batch_size]
batch_of(texts, i, batch_size) ==
    SubSeq(texts, i + 1,
           IF i + batch_size < Len(texts) THEN i + batch_size ELSE Len(texts))

\* the list `results` of translate_batch
results == IF outcome = NoOutcome THEN <<>> ELSE outcome.value

\* the provider.chat calls of one batch: the batch prompt, then one
\* paragraph prompt for every text whose tag the response lacks
chats(batch, response) ==
    LET RECURSIVE fallbacks(_)
        fallbacks(j) ==
            IF j > Len(batch) THEN <<>>
            ELSE (IF re_search(response, j).matched THEN <<>>
                  ELSE <<[kind |-> "paragraph", text |-> batch[j],
                          response |-> ParagraphResponse(batch[j])]>>)
                 \o fallbacks(j + 1)
    IN  <<[kind |-> "batch", text |-> Concat(batch), response |-> response]>>
           \o fallbacks(1)

\* one iteration of `for i in range(0, len(texts), batch_size)`
translate_batch ==
    /\ pc = "batches"
    /\ attempt < Len(kw.texts)
    /\ \E response \in BatchResponses :
         LET batch == batch_of(kw.texts, attempt, kw.batch_size)
             parsed ==
                [j \in 1..Len(batch) |->
                    LET match == re_search(response, j)
                    IN  IF match.matched THEN strip(match.group)
                        ELSE translate_paragraph(batch[j],
                                                 ParagraphResponse(batch[j]))]
         IN  /\ outcome' = [type |-> "list", value |-> results \o parsed]
             /\ lines' = response
             /\ sent' = chats(batch, response)
    /\ trace' = Append(trace, Sleep(5))
    /\ attempt' = attempt + kw.batch_size
    /\ op' = "translate_batch"
    /\ UNCHANGED <<name, kw, config, pc, client, init_count, initialized,
                   image_format, ops, last_exception, raised_kinds,
                   last_raised, factory>>

\* `return results`
translate_batch_return ==
    /\ pc = "batches"
    /\ attempt >= Len(kw.texts)
    /\ pc' = "translated"
    /\ outcome' = [type |-> "list", value |-> results]
    /\ op' = "translate_batch"
    /\ UNCHANGED <<name, kw, config, client, init_count, initialized,
                   image_format, ops, attempt, last_exception, trace, sent,
                   raised_kinds, last_raised, lines, factory>>

InitTranslate ==
    /\ name = "qwen"
    /\ \E texts \in TextLists, batch_size \in 1..MaxBatch :
         kw = [texts |-> texts, batch_size |-> batch_size]
    /\ config = NoArg
    /\ pc = "batches"
    /\ Fresh
    /\ NoFactoryCall

NextTranslate == translate_batch \/ translate_batch_return

SpecTranslate == InitTranslate /\ [][NextTranslate]_vars

-----------------------------------------------------------------------------
(* PDFScanner.scan_pdf *)

\* an optional integer argument: None, or a number
NoInt == [none |-> TRUE]
SomeInt(n) == [none |-> FALSE, v |-> n]

\* min(a, b)
min(a, b) == IF a <= b THEN a ELSE b

\* `if end_page is None: end_page = total_pages`
end_page_of(k) == IF k.end_page.none THEN k.total_pages ELSE k.end_page.v

\* range(start_page, min(end_page, total_pages)) has an element for i
in_page_range(k, i) ==
    k.start_page + i < min(end_page_of(k), k.total_pages)

\* `if i < end_page - start_page - 1`
pacing(k, i) == i < end_page_of(k) - k.start_page - 1

\* self.provider.vision(image_bytes, prompt, "png") for page page_num
Vision(page_num) == [e |-> "vision", ok |-> TRUE, w |-> 0, page |-> page_num]

\* one iteration of the loop of scan_pdf: _extract_page_content, which
\* calls provider.vision once, then the pacing delay
scan_page ==
    /\ pc = "scan"
    /\ in_page_range(kw, attempt)
    /\ LET page_num == kw.start_page + attempt
       IN  /\ \E vision_ok \in BOOLEAN, page \in PagesOf(page_num + 1) :
                IF vision_ok
                THEN /\ outcome' =
                          [type |-> "list",
                           value |-> Append(results,
                              [page EXCEPT !.page_number = page_num])]
                     /\ trace' = trace \o <<Vision(page_num)>>
                           \o (IF pacing(kw, attempt) THEN <<Sleep(5)>>
                               ELSE <<>>)
                     /\ pc' = pc
                ELSE /\ outcome' = [type |-> "RuntimeError"]
                     /\ trace' = Append(trace, Vision(page_num))
                     /\ pc' = "raised"
    /\ attempt' = attempt + 1
    /\ op' = "scan_pdf"
    /\ UNCHANGED <<name, kw, config, client, init_count, initialized,
                   image_format, ops, last_exception, sent, raised_kinds,
                   last_raised, lines, factory>>

\* `return results`
scan_pdf_return ==
    /\ pc = "scan"
    /\ ~in_page_range(kw, attempt)
    /\ pc' = "scanned"
    /\ outcome' = [type |-> "list", value |-> results]
    /\ op' = "scan_pdf"
    /\ UNCHANGED <<name, kw, config, client, init_count, initialized,
                   image_format, ops, attempt, last_exception, trace, sent,
                   raised_kinds, last_raised, lines, factory>>

InitScan ==
    /\ name = "qwen"
    /\ \E total_pages \in 0..MaxPages, start_page \in 0..MaxPages,
          end_page \in {NoInt} \cup {SomeInt(n) : n \in 0..(MaxPages + 1)} :
         kw = [total_pages |-> total_pages, start_page |-> start_page,
               end_page |-> end_page]
    /\ config = NoArg
    /\ pc = "scan"
    /\ Fresh
    /\ NoFactoryCall

NextScan == scan_page \/ scan_pdf_return

SpecScan == InitScan /\ [][NextScan]_vars

-----------------------------------------------------------------------------
(* Construction of a ProviderConfig from arbitrary numbers *)

RawTemperatures == (0 - MaxOut)..(MaxTemperature + MaxOut)
RawTopPs == (0 - MaxOut)..(MaxTopP + MaxOut)
RawMaxTokens == ((0 - MaxOut)..MaxOut) \cup {DefaultMaxTokens}

\* the generated __init__ has assigned the arguments to the fields
InitConfig ==
    /\ name = "qwen"
    /\ \E t \in RawTemperatures, p \in RawTopPs, m \in RawMaxTokens :
         kw = [api_key |-> <<"k">>, api_base |-> <<>>,
               vision_model |-> <<"v", "m">>,
               language_model |-> <<"l", "m">>, max_tokens |-> m,
               temperature |-> t, top_p |-> p,
               max_retries |-> DefaultMaxRetries,
               retry_delay |-> DefaultRetryDelay]
    /\ config = kw
    /\ pc = "new"
    /\ Fresh
    /\ NoFactoryCall

\* ProviderConfig.__post_init__
__post_init__ ==
    /\ pc = "new"
    /\ config' = post_init(config)
    /\ pc' = "constructed"
    /\ UNCHANGED <<name, kw, instance, factory>>

NextConfig == __post_init__

SpecConfig == InitConfig /\ [][NextConfig]_vars

-----------------------------------------------------------------------------
(* Observations on the current operation *)

RECURSIVE SleepSeq(_)
SleepSeq(tr) ==
    IF tr = <<>> THEN <<>>
    ELSE IF Head(tr).e = "sleep" THEN <<Head(tr).w>> \o SleepSeq(Tail(tr))
         ELSE SleepSeq(Tail(tr))

Calls == Cardinality({i \in 1..Len(trace) : trace[i].e = "call"})
FailedCalls ==
    Cardinality({i \in 1..Len(trace) : trace[i] = Call(FALSE)})

\* the operation ended in the error raised after the loop
Exhausted == pc = "raised" /\ outcome.type = "RuntimeError"

\* the operation ended in _initialize_client
InitFailed == pc = "raised" /\ outcome.type \in {"ImportError", "ConnectionError"}

\* the trace of k failed attempts under max_retries n and retry_delay d,
\* followed by a successful one when ok
RECURSIVE FailedPrefix(_, _, _, _)
FailedPrefix(n, d, k, a) ==
    IF a >= k THEN <<>>
    ELSE (IF a < n - 1 THEN <<Call(FALSE), Sleep(d * Pow2(a))>>
          ELSE <<Call(FALSE)>>) \o FailedPrefix(n, d, k, a + 1)

ExpectedTrace(n, d, k, ok) ==
    FailedPrefix(n, d, k, 0) \o (IF ok THEN <<Call(TRUE)>> ELSE <<>>)


-----------------------------------------------------------------------------
(* The retry policy *)

\* C1: with max_retries = N >= 1 and func failing on every attempt, func is
\* invoked exactly N times and the operation then ends in the error raised
\* after the loop, never in a value: while no attempt has returned there are
\* at most N invocations, fewer than N while the loop runs, and the loop
\* ends exactly when the N-th has failed.
C1_ExactlyNInvocations ==
    (config.max_retries >= 1 /\ pc # "idle" /\ pc # "returned" /\ ~InitFailed) =>
        /\ Calls = FailedCalls
        /\ Calls <= config.max_retries
        /\ (pc = "attempt" => Calls < config.max_retries)
        /\ (pc = "raised" =>
              /\ Calls = config.max_retries
              /\ outcome.type = "RuntimeError")

C1_Witness ==
    /\ Exhausted
    /\ config.max_retries = 3
    /\ Calls = 3
    /\ FailedCalls = 3

\* C2: when func fails k < N times and then succeeds, the operation returns
\* the value of that call after exactly k+1 invocations, without an error,
\* and the successful invocation is the last event of the operation.
C2_ReturnsAfterKPlusOne ==
    /\ \A i \in 1..Len(trace) :
          trace[i] = Call(TRUE) => (i = Len(trace) /\ pc = "returned")
    /\ pc = "returned" =>
          /\ outcome = [type |-> "value", text |-> _make_request(lines)]
          /\ trace[Len(trace)] = Call(TRUE)
          /\ Calls = FailedCalls + 1
          /\ FailedCalls < config.max_retries

C2_Witness ==
    /\ pc = "returned"
    /\ config.max_retries = 3
    /\ FailedCalls = 2
    /\ Calls = 3
    /\ outcome.text = <<"a">>

\* C3: the a-th sleep of an operation (a from 0) lasts retry_delay * 2^a;
\* every sleep directly follows a failed attempt and is followed by another
\* attempt, so there is none before the first attempt and none after the
\* last failed one; with max_retries = 3 and func always failing the sleeps
\* are retry_delay, 2*retry_delay.
C3_ExponentialSleeps ==
    LET sl == SleepSeq(trace) IN
    /\ \A a \in 1..Len(sl) : sl[a] = config.retry_delay * Pow2(a - 1)
    /\ \A i \in 1..Len(trace) :
          trace[i].e = "sleep" =>
              /\ i > 1
              /\ trace[i - 1] = Call(FALSE)
              /\ IF i = Len(trace) THEN pc = "attempt"
                 ELSE trace[i + 1].e = "call"
    /\ (trace # <<>> /\ trace[Len(trace)] = Call(FALSE)) =>
          FailedCalls >= config.max_retries
    /\ (Exhausted /\ config.max_retries = 3) =>
          sl = <<config.retry_delay, 2 * config.retry_delay>>

C3_Witness ==
    /\ Exhausted
    /\ config.max_retries = 3
    /\ config.retry_delay = 2
    /\ SleepSeq(trace) = <<2, 4>>

C5_KindsTreatedAlike ==
    /\ trace = ExpectedTrace(config.max_retries, config.retry_delay,
                             FailedCalls, pc = "returned")
    /\ pc = "raised" => (Exhausted \/ InitFailed)
    /\ (Exhausted /\ config.max_retries >= 1) =>
          FailedCalls = config.max_retries
    /\ pc = "attempt" => attempt = FailedCalls

C5_Witness ==
    /\ Exhausted
    /\ config.max_retries = 3
    /\ raised_kinds = {"auth", "malformed"}
    /\ FailedCalls = 3
    /\ Len(SleepSeq(trace)) = 2

\* C6: an operation whose response could not be decoded does not return a
\* text: when chat/vision returns, no line of the response it read was
\* undecodable.
C6_FailedCallRaises ==
    pc = "returned" => \A i \in 1..Len(lines) : lines[i].t # "bad_json"

\* C7: every request a vision() operation issues, on every attempt and for
\* every variant and configured temperature, has temperature 0.1.
C7_VisionTemperatureFixed ==
    op = "vision" =>
        /\ Len(sent) = Calls
        /\ \A i \in 1..Len(sent) :
              /\ sent[i].kind = "vision"
              /\ sent[i].temperature = VisionTemperature

C7_Witness ==
    /\ op = "vision"
    /\ name = "gemini"
    /\ config.temperature = MaxTemperature
    /\ Len(sent) = 3
    /\ sent[3].temperature = VisionTemperature

-----------------------------------------------------------------------------
(* ProviderConfig *)

\* C8: constructing a ProviderConfig always completes and yields
\* 0 <= temperature <= 2, 0 <= top_p <= 1 and max_tokens >= 1; a temperature
\* outside [0, 2] becomes 0.7, a top_p outside [0, 1] becomes 0.9, a
\* max_tokens below 1 becomes 4096, each decided by its own argument alone,
\* and an argument in range is kept.
C8_ConfigNormalized ==
    /\ pc = "new" => ENABLED __post_init__
    /\ pc = "constructed" =>
          /\ 0 <= config.temperature /\ config.temperature <= MaxTemperature
          /\ 0 <= config.top_p /\ config.top_p <= MaxTopP
          /\ config.max_tokens >= 1
          /\ config.temperature =
                IF kw.temperature < 0 \/ kw.temperature > MaxTemperature
                THEN DefaultTemperature ELSE kw.temperature
          /\ config.top_p =
                IF kw.top_p < 0 \/ kw.top_p > MaxTopP
                THEN DefaultTopP ELSE kw.top_p
          /\ config.max_tokens =
                IF kw.max_tokens < 1 THEN DefaultMaxTokens ELSE kw.max_tokens
          /\ \A f \in {"api_key", "api_base", "vision_model", "language_model",
                        "max_retries", "retry_delay"} : config[f] = kw[f]

C8_Witness ==
    /\ pc = "constructed"
    /\ kw.temperature = MaxTemperature + 1
    /\ kw.top_p = MaxTopP
    /\ kw.max_tokens = 0
    /\ config.temperature = DefaultTemperature
    /\ config.top_p = MaxTopP
    /\ config.max_tokens = DefaultMaxTokens

-----------------------------------------------------------------------------
(* The factory's outcomes *)

Made == call.made
Built == Made /\ result.ok

\* the name the call asks for: the argument, else AI_PROVIDER of the process
\* environment, else AI_PROVIDER of the file, else "qwen"
Requested ==
    IF call.args.provider_name # NoArg THEN call.args.provider_name
    ELSE IF AI_PROVIDER \in DOMAIN call.environ THEN call.environ[AI_PROVIDER]
    ELSE IF AI_PROVIDER \in DOMAIN dotenv THEN dotenv[AI_PROVIDER]
    ELSE <<"q", "w", "e", "n">>

FiveNames ==
    <<<<"q", "w", "e", "n">>, <<"g", "e", "m", "i", "n", "i">>,
      <<"o", "p", "e", "n", "a", "i">>,
      <<"a", "n", "t", "h", "r", "o", "p", "i", "c">>,
      <<"o", "l", "l", "a", "m", "a">>>>

IsOneOfFive(s) == \E i \in 1..Len(FiveNames) : FiveNames[i] = s

\* C9: a requested name that, lower-cased, is none of qwen, gemini, openai,
\* anthropic, ollama makes get_provider raise the configuration error
\* (ValueError) that carries the rejected name and lists the five valid
\* names, and no provider is built; a name that is one of the five after
\* lower-casing is not rejected.
C9_UnknownNameRejected ==
    Made =>
        /\ ~IsOneOfFive(lower(Requested)) =>
              result = [ok |-> FALSE, type |-> "ValueError",
                        unknown |-> lower(Requested), available |-> FiveNames]
        /\ IsOneOfFive(lower(Requested)) => result.ok

C9_Witness ==
    /\ Made
    /\ call.args.provider_name = Unknown
    /\ ~result.ok
    /\ result.type = "ValueError"
    /\ result.available = FiveNames

\* the four layers of a field of the built variant, NoArg where a layer does
\* not hold the field: call argument, process environment as the call found
\* it, .env file, built-in default
LayerVar(f) ==
    IF f = "api_key" THEN api_key_env_map(result.name)
    ELSE model_var(Chars(result.name),
                   IF f = "vision_model" THEN "vision" ELSE "language")

HasLayerVar(f) == f # "api_key" \/ result.name # "ollama"

Layers(f) ==
    <<call.args[f],
      IF HasLayerVar(f) /\ LayerVar(f) \in DOMAIN call.environ
      THEN call.environ[LayerVar(f)] ELSE NoArg,
      IF HasLayerVar(f) /\ LayerVar(f) \in DOMAIN dotenv
      THEN dotenv[LayerVar(f)] ELSE NoArg,
      CASE f = "api_key" -> <<>>
        [] f = "vision_model" -> default_vision_model(result.name)
        [] f = "language_model" -> default_language_model(result.name)>>

LayerAbsent(f, i) == Layers(f)[i] = NoArg

\* layer i holds a value and no earlier layer holds anything
FirstPresent(f, i) ==
    /\ \A j \in 1..(i - 1) : LayerAbsent(f, j)
    /\ i < 4 => (~LayerAbsent(f, i) /\ Layers(f)[i] # <<>>)

ResolvedFields == {"api_key", "vision_model", "language_model"}

\* C10 as stated: for every variant and each of api_key, vision_model and
\* language_model, the built config holds the value of the first layer
\* (argument, environment, file, default) that has one.
C10_LayerOrder ==
    Built =>
        \A f \in ResolvedFields : \A i \in 1..4 :
            FirstPresent(f, i) => result.config[f] = Layers(f)[i]

\* C10: as above for vision_model and language_model of every variant and
\* for api_key of the four variants that have a key variable; the Ollama
\* config's api_key is empty whatever the api_key argument is.
C10_LayerOrderKeyed ==
    Built =>
        \A f \in ResolvedFields : \A i \in 1..4 :
            FirstPresent(f, i) =>
                result.config[f] = IF f = "api_key" /\ result.name = "ollama"
                                   THEN <<>> ELSE Layers(f)[i]

C10_Witness ==
    /\ Built
    /\ call.args.vision_model = NoArg
    /\ FirstPresent("vision_model", 2)
    /\ ~LayerAbsent("vision_model", 3)
    /\ Layers("vision_model")[3] # <<>>
    /\ result.config.vision_model = call.environ[LayerVar("vision_model")]

\* the first non-empty value among the layers of a field
FirstNonEmpty(f) ==
    LET L == Layers(f)
        i == CHOOSE i \in 1..4 :
                 /\ i < 4 => (L[i] # NoArg /\ L[i] # <<>>)
                 /\ \A j \in 1..(i - 1) : L[j] = NoArg \/ L[j] = <<>>
    IN  L[i]

\* C11: in a built config the first non-empty layer wins: an empty argument
\* or an empty variable is skipped, so vision_model and language_model equal
\* the first non-empty layer and are never empty (the built-in default of a
\* model name is not empty).
C11_FirstNonEmptyWins ==
    Built =>
        \A f \in {"vision_model", "language_model"} :
            /\ result.config[f] = FirstNonEmpty(f)
            /\ result.config[f] # <<>>

NoArguments == Made /\ call.args = Arguments(NoArg, NoArg, NoArg, NoArg)

NameIds == <<"qwen", "gemini", "openai", "anthropic", "ollama">>

\* the variant whose name is the requested one, lower-cased
Selected == NameIds[CHOOSE i \in 1..Len(FiveNames) : FiveNames[i] = lower(Requested)]

\* what the key variable of the built variant holds: the process environment
\* first, then the file, nothing for the variant without a key variable
OwnKey ==
    IF result.name = "ollama" THEN <<>>
    ELSE IF LayerVar("api_key") \in DOMAIN call.environ
         THEN call.environ[LayerVar("api_key")]
    ELSE IF LayerVar("api_key") \in DOMAIN dotenv
         THEN dotenv[LayerVar("api_key")]
    ELSE <<>>

\* C12: a call without arguments whose AI_PROVIDER (environment, else file,
\* else "qwen") names one of the five variants builds that variant, and its
\* api_key is what that variant's own key variable holds, whatever the key
\* variables of other variants hold.
C12_VariantOfAIProvider ==
    NoArguments =>
        /\ IsOneOfFive(lower(Requested)) => Built
        /\ Built => /\ result.name = Selected
                    /\ result.config.api_key = OwnKey

\* AI_PROVIDER=GEMINI in the environment with a key in the file
C12_Witness ==
    /\ NoArguments
    /\ Built
    /\ AI_PROVIDER \in DOMAIN call.environ
    /\ result.name = "gemini"
    /\ EnvVar(<<"G", "E", "M", "I", "N", "I">>, "_API_KEY") \in DOMAIN dotenv
    /\ result.config.api_key = <<"f", "k", "G", "E", "M", "I", "N", "I">>

SharedFields == {"max_tokens", "temperature", "max_retries", "retry_delay"}

\* the variable of a shared field, and int() or float() of a string
SharedVar(f) ==
    CASE f = "max_tokens" -> MAX_TOKENS
      [] f = "temperature" -> TEMPERATURE
      [] f = "max_retries" -> MAX_RETRIES
      [] f = "retry_delay" -> RETRY_DELAY

SharedDefault(f) ==
    CASE f = "max_tokens" -> 4096
      [] f = "temperature" -> 7
      [] f = "max_retries" -> 3
      [] f = "retry_delay" -> 10

Parsed(f, s) ==
    IF f \in {"max_tokens", "max_retries"} THEN py_int(s).v ELSE py_float(s).v

\* the value the environment gives a shared field: the process environment
\* as the call found it, else the file, else the default
FromEnvironment(f) ==
    IF SharedVar(f) \in DOMAIN call.environ
    THEN Parsed(f, call.environ[SharedVar(f)])
    ELSE IF SharedVar(f) \in DOMAIN dotenv THEN Parsed(f, dotenv[SharedVar(f)])
    ELSE SharedDefault(f)

\* what ProviderConfig makes of a value (C8)
Normalized(f, x) ==
    CASE f = "max_tokens" -> IF x < 1 THEN 4096 ELSE x
      [] f = "temperature" -> IF x < 0 \/ x > 20 THEN 7 ELSE x
      [] OTHER -> x

\* the outcome of asking for variant v with no argument but the name, in the
\* environment the latest call left
Plain(v) == resolve(Arguments(Chars(v), NoArg, NoArg, NoArg), dotenv, environ)

\* C13: under one environment every variant asked for without keyword
\* arguments is built or not as the first one is, with max_tokens,
\* temperature, max_retries and retry_delay equal to the first one's (so they
\* are equal for every two variants); and in a built config each of the four is
\* the keyword argument of the call if there is one, else the value of the
\* common variable (environment, else file, else default), as ProviderConfig
\* normalizes it.
C13_SharedSettings ==
    Made =>
        /\ LET first == Plain("qwen")
           IN  \A v \in PROVIDERS :
                   LET other == Plain(v)
                   IN  /\ other.ok = first.ok
                       /\ other.ok =>
                             \A f \in SharedFields :
                                 other.config[f] = first.config[f]
        /\ Built =>
              \A f \in SharedFields :
                  result.config[f] =
                      Normalized(f, IF f \in DOMAIN call.args.kwargs
                                    THEN call.args.kwargs[f]
                                    ELSE FromEnvironment(f))

\* a keyword argument against a different value of the variable
C13_Witness ==
    /\ Built
    /\ "max_tokens" \in DOMAIN call.args.kwargs
    /\ MAX_TOKENS \in DOMAIN call.environ
    /\ call.environ[MAX_TOKENS] = <<"8">>
    /\ result.config.max_tokens = 100

\* what OLLAMA_BASE_URL holds for the call: the process environment as the
\* call found it, else the file; NoArg when neither sets it
BaseUrlVar ==
    IF OLLAMA_BASE_URL \in DOMAIN call.environ
    THEN call.environ[OLLAMA_BASE_URL]
    ELSE IF OLLAMA_BASE_URL \in DOMAIN dotenv THEN dotenv[OLLAMA_BASE_URL]
    ELSE NoArg

Loopback ==
    <<"h", "t", "t", "p", ":", "/", "/", "l", "o", "c", "a", "l", "h", "o",
      "s", "t", ":", "1", "1", "4", "3", "4">>

\* C14: a built Ollama config has as api_base the value of OLLAMA_BASE_URL
\* (environment, else file) when that is set and not empty, and
\* http://localhost:11434 otherwise, so it is never empty; its api_key is
\* empty whatever argument and key variables there are.
C14_OllamaBaseUrl ==
    (Built /\ result.name = "ollama") =>
        /\ result.config.api_base =
              IF BaseUrlVar \in {NoArg, <<>>} THEN Loopback ELSE BaseUrlVar
        /\ result.config.api_base # <<>>
        /\ result.config.api_key = <<>>

\* the variable set but empty in the environment, and set in the file
C14_Witness ==
    /\ Built
    /\ result.name = "ollama"
    /\ BaseUrlVar = <<>>
    /\ OLLAMA_BASE_URL \in DOMAIN dotenv
    /\ dotenv[OLLAMA_BASE_URL] # <<>>
    /\ result.config.api_base = Loopback

Asked == op = "supports_vision" /\ outcome.type = "bool"

\* the configured vision model, lower-cased, contains one of the names
HasOneOf(names) == \E m \in names : Contains(lower(config.vision_model), m)

\* C15: the Ollama variant's supports_vision is true exactly when the
\* configured vision_model, lower-cased, contains llava, bakllava or
\* moondream; so it is true for LLaVA:13b and false for llama3.
C15_OllamaVisionByName ==
    (Asked /\ name = "ollama") =>
        /\ outcome.value =
              HasOneOf({<<"l", "l", "a", "v", "a">>,
                        <<"b", "a", "k", "l", "l", "a", "v", "a">>,
                        <<"m", "o", "o", "n", "d", "r", "e", "a", "m">>})
        /\ config.vision_model = <<"L", "L", "a", "V", "A", ":", "1", "3", "b">>
              => outcome.value
        /\ config.vision_model = <<"l", "l", "a", "m", "a", "3">> => ~outcome.value

C15_Witness ==
    /\ Asked
    /\ name = "ollama"
    /\ config.vision_model = <<"L", "L", "a", "V", "A", ":", "1", "3", "b">>
    /\ outcome.value

\* C16 as stated: supports_vision is true for qwen, gemini, openai and
\* anthropic whatever vision_model is configured.
C16_ConstantExceptOllama ==
    (Asked /\ name # "ollama") => outcome.value

\* C16: supports_vision is true for qwen, gemini and anthropic whatever
\* vision_model is configured; the openai variant, like the Ollama variant,
\* computes it from the model name: true exactly when vision_model,
\* lower-cased, contains gpt-4o, gpt-4-turbo or gpt-4-vision.
C16_ConstantForThree ==
    Asked =>
        /\ name \in {"qwen", "gemini", "anthropic"} => outcome.value
        /\ name = "openai" =>
              outcome.value =
                  HasOneOf({<<"g", "p", "t", "-", "4", "o">>,
                            <<"g", "p", "t", "-", "4", "-", "t", "u", "r", "b", "o">>,
                            <<"g", "p", "t", "-", "4", "-", "v", "i", "s", "i", "o", "n">>})

\* an openai provider configured with a model outside the three families
C16_Witness ==
    /\ Asked
    /\ name = "openai"
    /\ config.vision_model = <<"g", "p", "t", "-", "3", ".", "5", "-", "t", "u", "r", "b", "o">>
    /\ ~outcome.value

SupportedFormats ==
    {<<"p", "n", "g">>, <<"j", "p", "g">>, <<"j", "p", "e", "g">>,
     <<"g", "i", "f">>, <<"w", "e", "b", "p">>}

\* C17: every request of a vision() call whose image_format is none of png,
\* jpg, jpeg, gif, webp declares the default type image/png for the image,
\* for every variant.
C17_DefaultMediaType ==
    (op = "vision" /\ image_format \notin SupportedFormats) =>
        \A i \in 1..Len(sent) :
            sent[i].media_type = <<"i", "m", "a", "g", "e", "/", "p", "n", "g">>

\* C18: the provider a PDFScanner or Translator creates for itself is the
\* one its configuration describes: the variant named by config.ai.provider,
\* with the api_key, vision_model and language_model of config.ai.
C18_ProviderOfConfig ==
    (module.class # None /\ module.created /\ module.provider.ok) =>
        /\ Chars(module.provider.name) = lower(module.config.provider)
        /\ module.provider.config.api_key = module.config.api_key
        /\ module.provider.config.vision_model = module.config.vision_model
        /\ module.provider.config.language_model = module.config.language_model

\* C19: no client exists before the first call, and once a run of
\* _initialize_client has completed on an instance no later chat or vision
\* call runs it again.
C19_InitializedOnce ==
    /\ [](ops = 0 => (client = None /\ init_count = 0))
    /\ [][initialized => init_count' = init_count]_vars

\* C20: while no initialization has completed, every operation started has
\* run _initialize_client once and ended with its error (ImportError, or
\* ConnectionError for Ollama) without a vendor call or a sleep; and any call
\* that runs _initialize_client and ends raised before a first attempt, with
\* max_retries >= 1, ends with that error, not with the retries-exhausted
\* error.
C20_InitFailurePropagates ==
    /\ []((ops >= 1 /\ ~initialized) =>
            /\ pc = "raised"
            /\ init_count = ops
            /\ trace = <<>>
            /\ sent = <<>>
            /\ outcome.type =
                 IF name = "ollama" THEN "ConnectionError" ELSE "ImportError")
    /\ [][(/\ init_count' = init_count + 1
           /\ pc' = "raised"
           /\ config.max_retries >= 1)
          => (/\ trace' = <<>>
              /\ sent' = <<>>
              /\ outcome'.type \in {"ImportError", "ConnectionError"})]_vars

C20_Witness ==
    /\ ops = 2
    /\ ~initialized
    /\ name = "ollama"
    /\ config.max_retries >= 2
    /\ pc = "raised"
    /\ outcome.type = "ConnectionError"
    /\ Calls = 0
    /\ SleepSeq(trace) = <<>>

\* C21: an operation that ends in the retries-exhausted error has invoked
\* the vendor call at least once, for every max_retries >= 0.
C21_AtLeastOneCall ==
    Exhausted => Calls >= 1

\* the model a request names for a configured model name: the configured
\* one, or the variant's default when none is configured
Named(configured, default) == IF configured = <<>> THEN default ELSE configured

\* C22: every request of a chat() call carries language_model, max_tokens,
\* temperature and top_p of the ProviderConfig, and every request of a
\* vision() call names vision_model, for every variant.
C22_RequestFromConfig ==
    \A i \in 1..Len(sent) :
        /\ op = "chat" =>
              /\ sent[i].model = Named(config.language_model,
                                       default_language_model(name))
              /\ sent[i].max_tokens = config.max_tokens
              /\ sent[i].temperature = config.temperature
              /\ "top_p" \in DOMAIN sent[i]
              /\ sent[i].top_p = config.top_p
        /\ op = "vision" =>
              sent[i].model = Named(config.vision_model,
                                    default_vision_model(name))


Ended == pc \in {"returned", "raised"} /\ ~InitFailed

MaxOf(a, b) == IF a >= b THEN a ELSE b

\* C23 (as stated): every chat/vision call ends, after at most max_retries
\* invocations of the vendor call and at most max_retries - 1 sleeps.
C23_TerminatesWithinBounds ==
    /\ [](Ended => /\ Calls <= config.max_retries
                   /\ Len(SleepSeq(trace)) <= config.max_retries - 1)
    /\ (pc = "attempt") ~> (pc \in {"returned", "raised"})

\* C23: given that each invocation of the vendor call returns or raises,
\* every chat/vision call that has entered the retry loop eventually returns
\* a text or raises, and when it has ended it has made at most max_retries
\* invocations and at most max(max_retries - 1, 0) sleeps.
C23_Terminates ==
    /\ [](Ended => /\ Calls <= config.max_retries
                   /\ Len(SleepSeq(trace)) <= MaxOf(config.max_retries - 1, 0))
    /\ (pc = "attempt") ~> (pc \in {"returned", "raised"})

C23_Witness ==
    /\ Exhausted
    /\ config.max_retries = MaxRetriesBound
    /\ Calls = config.max_retries
    /\ Len(SleepSeq(trace)) = config.max_retries - 1


\* C24: the OCR scanner and the translator built by one BookPipeline never
\* hold the same Provider object, hence never the same transport client.
C24_NoSharedProvider ==
    module.class = "BookPipeline" =>
        module.scanner.provider # module.translator.provider


\* the 6-bit value of a base64 character
b64_value(c) == (CHOOSE i \in 1..64 : B64Chars[i] = c) - 1

\* base64 decoding of a text: groups of four characters, "=" padding in the
\* last group; a text that is not made of such groups is rejected
b64decode(text) ==
    LET RECURSIVE dec(_)
        dec(t) ==
            IF t = <<>> THEN <<>>
            ELSE LET n3 == b64_value(t[1]) * 262144 + b64_value(t[2]) * 4096
                 IN  IF t[3] = "="
                     THEN <<n3 \div 65536>>
                     ELSE LET n2 == n3 + b64_value(t[3]) * 64
                          IN  IF t[4] = "="
                              THEN <<n2 \div 65536, (n2 \div 256) % 256>>
                              ELSE LET n == n2 + b64_value(t[4])
                                   IN  <<n \div 65536, (n \div 256) % 256,
                                         n % 256>> \o dec(SubSeq(t, 5, Len(t)))
        wellformed ==
            /\ Len(text) % 4 = 0
            /\ \A i \in 1..Len(text) :
                  \/ \E j \in 1..64 : B64Chars[j] = text[i]
                  \/ /\ text[i] = "="
                     /\ i >= Len(text) - 1
                     /\ (i = Len(text) - 1 => text[Len(text)] = "=")
    IN  IF wellformed THEN [ok |-> TRUE, data |-> dec(text)]
        ELSE [ok |-> FALSE]

\* the base64 text of an image part: in a data URL, what follows the comma
embedded_base64(part) ==
    IF part.type = "image_url"
    THEN LET comma == CHOOSE i \in 1..Len(part.url) :
                         /\ part.url[i] = ","
                         /\ \A j \in 1..(i - 1) : part.url[j] # ","
         IN  SubSeq(part.url, comma + 1, Len(part.url))
    ELSE part.data

\* C25: for the OpenAI, Anthropic and Qwen variants the base64 text that
\* vision() embeds for an image decodes to exactly image_data, for every
\* byte sequence, the empty one and lengths not divisible by 3 included.
C25_Base64RoundTrip ==
    (pc = "encoded" /\ name \in {"openai", "anthropic", "qwen"}) =>
        LET decoded == b64decode(embedded_base64(sent[1]))
        IN  /\ decoded.ok
            /\ decoded.data = kw.image_data

C25_Witness ==
    /\ pc = "encoded"
    /\ name = "anthropic"
    /\ Len(kw.image_data) = MaxImageLen
    /\ sent[1].data[Len(sent[1].data)] = "="
    /\ b64decode(sent[1].data).data = kw.image_data


\* C26: no step of chat() or vision(), succeeding or failing, changes the
\* provider's ProviderConfig, and every request of a chat operation, also
\* one that follows a vision operation on the same instance, carries the
\* configured temperature.
C26_ConfigUnchanged ==
    /\ [][config' = config]_vars
    /\ [](config = ProviderConfig(kw))
    /\ [](op = "chat" =>
            \A i \in 1..Len(sent) : sent[i].temperature = config.temperature)

C26_Witness ==
    /\ ops = MaxOps
    /\ op = "chat"
    /\ pc = "raised"
    /\ Len(sent) = config.max_retries
    /\ Len(sent) >= 2
    /\ sent[Len(sent)].temperature = DefaultTemperature
    /\ config.temperature = DefaultTemperature


\* C27: when get_provider is called with one of the five registered names
\* in any letter case and returns a Provider, the Provider's name is that
\* name in lower case, and a model name that neither the call nor the
\* environment nor the file configures is the DEFAULT_MODELS entry of that
\* name.
C27_NameAgrees ==
    (call.made /\ call.args.provider_name # NoArg
       /\ Registered(lower(call.args.provider_name))) =>
        LET pn == lower(call.args.provider_name)
            env == setdefault_all(call.environ, dotenv)
        IN  /\ result.ok
            /\ Chars(result.name) = pn
            /\ (call.args.vision_model = NoArg
                   /\ model_var(pn, "vision") \notin DOMAIN env) =>
                  result.config.vision_model =
                     default_vision_model(result.name)
            /\ (call.args.language_model = NoArg
                   /\ model_var(pn, "language") \notin DOMAIN env) =>
                  result.config.language_model =
                     default_language_model(result.name)

C27_Witness ==
    /\ call.made
    /\ call.args.provider_name = upper(Chars("openai"))
    /\ call.args.vision_model = NoArg
    /\ result.ok
    /\ result.name = "openai"
    /\ result.config.vision_model = default_vision_model("openai")


\* C28: merge_scripture_texts loses no page content: every input page is in
\* the output list, or one output page carries its main_content and its
\* scripture text.
C28_NoPageLost ==
    pc = "merged" =>
        LET out == outcome.value
        IN  \A i \in 1..Len(kw.pages) :
               LET page == kw.pages[i]
               IN  \/ \E j \in 1..Len(out) :
                         out[j].page_number = page.page_number
                   \/ \E j \in 1..Len(out) :
                         /\ Contains(out[j].main_content, page.main_content)
                         /\ truthy(page.greek_hebrew_text) =>
                               \/ Contains(out[j].greek_hebrew_text,
                                           page.greek_hebrew_text)
                               \/ Contains(out[j].main_content,
                                           page.greek_hebrew_text)


\* the text tagged [TRANS_k] in a response: what follows the first such tag
\* up to the next "[TRANS_" or the end, without surrounding white space
Tagged(response, k) ==
    LET i == CHOOSE a \in tag_at(response, k) :
                \A b \in tag_at(response, k) : a <= b
        rest == SubSeq(response, i + 3, Len(response))
        stop == IF \E n \in 1..Len(rest) : rest[n] = "[TRANS_"
                THEN CHOOSE n \in 1..Len(rest) :
                        /\ rest[n] = "[TRANS_"
                        /\ \A m \in 1..(n - 1) : rest[m] # "[TRANS_"
                ELSE Len(rest) + 1
    IN  strip(SubSeq(rest, 1, stop - 1))

\* what the individual translation of a text gave in the last batch
Individually(text) ==
    LET c == CHOOSE n \in 1..Len(sent) :
                sent[n].kind = "paragraph" /\ sent[n].text = text
    IN  strip(sent[c].response)

\* C29: translate_batch gives one translation per input text, in input
\* order: after every batch the results cover the texts up to the end of
\* that batch, and the result of the text at position j of the batch is the
\* text tagged [TRANS_j] in the response, or its individual translation
\* when the response has no such tag; the list returned has the length of
\* the input.
C29_OnePerText ==
    (op = "translate_batch") =>
        LET texts == kw.texts
            done == IF attempt < Len(texts) THEN attempt ELSE Len(texts)
            start == attempt - kw.batch_size
        IN  /\ Len(results) = done
            /\ pc = "translated" => Len(results) = Len(texts)
            /\ attempt > 0 =>
                  \A j \in 1..(done - start) :
                     results[start + j] =
                        IF tag_at(lines, j) # {} THEN Tagged(lines, j)
                        ELSE Individually(texts[start + j])

C29_Witness ==
    /\ pc = "translated"
    /\ Len(kw.texts) = 2
    /\ kw.batch_size = 2
    /\ lines = TransTag(2) \o <<" ", "y", "\n">> \o TransTag(1)
    /\ results = <<<<>>, <<"y">>>>


\* the pages of the range [start_page, min(end_page, total_pages))
PageRange ==
    LET last == min(end_page_of(kw), kw.total_pages)
        n == IF last > kw.start_page THEN last - kw.start_page ELSE 0
    IN  [i \in 1..n |-> kw.start_page + i - 1]

\* C30: scan_pdf calls provider.vision once per page of the range
\* [start_page, min(end_page, total_pages)), in ascending order, returns
\* the results in that order, and has a pacing sleep between two
\* consecutive pages only, none after the last page scanned.
C30_OncePerPagePaced ==
    (pc = "scanned" /\ op = "scan_pdf") =>
        LET n == Len(PageRange)
        IN  /\ Len(results) = n
            /\ \A i \in 1..n : results[i].page_number = PageRange[i]
            /\ Len(trace) = IF n = 0 THEN 0 ELSE 2 * n - 1
            /\ \A i \in 1..n :
                  /\ trace[2 * i - 1].e = "vision"
                  /\ trace[2 * i - 1].page = PageRange[i]
            /\ \A i \in 1..(n - 1) : trace[2 * i] = Sleep(5)

====
